---------------------------- MODULE Spec2Model ----------------------------
(***************************************************************************)
(* A model of the core of ramses_rf: the entity message cache              *)
(* (ramses_rf/entities.py), the protocol/QoS send path, the 1FC9 binding   *)
(* handshake, the 0404 schedule read, the gateway's address substitution,  *)
(* the dispatcher (ramses_rf/dispatcher.py), array fragments, Message     *)
(* equality, construction and expiry (ramses_tx/message.py), the readers  *)
(* of an entity, the parameters of a send (ramses_tx/typing.py), the      *)
(* two-way maps of slugs (ramses_tx/const.py) and the validation of the    *)
(* device classes of a message.                                            *)
(*                                                                         *)
(* Every subsystem has a specification of its own (SpecCache, ...); the    *)
(* variables of the other subsystems keep their initial values under it.   *)
(***************************************************************************)
EXTENDS Integers, Sequences, FiniteSets, TLC

VARIABLES
    \* the entity cache
    ent,          \* entity id -> [_msgs, _msgz]: the stores of every Entity
    fraction,     \* message id -> its age as a fraction of its lifespan
    nextId,       \* the id the next Message object gets
    handled,      \* history: entity -> code -> ids of the I/RP messages handled, in order
    removed,      \* history: entity -> code -> _msgs[code] was removed since the last I/RP
    evicted,      \* history: ids of the messages expired() has found expired
    \* the protocol / QoS send path
    cmds,         \* call -> the command's priority and QoS, and the call's arguments
    pc,           \* call -> "new", "queued", "sent", "echo_seen" or "done"
    ntx,          \* call -> the number of times its frame was written
    result,       \* call -> "pending", "echo", "reply" or "ProtocolSendFailed"
    queue,        \* the queued calls, in the order they were made
    lastTx,       \* history: the call whose frame was written last
    timedOut,     \* history: the calls whose timeout elapsed
    \* the binding handshake
    sup,          \* the supplicant's binding context
    resp,         \* the respondent's binding context
    air,          \* the 1FC9 frames sent and not yet received or lost
    sentFrames,   \* history: the 1FC9 frames sent
    \* the schedule read
    sched,        \* the reader: its state, the aggregator and the cached schedule
    flow,         \* history: the 0006/0404 packets of the current read, in order
    ctl,          \* the controller: the schedule's version and number of fragments
    disable_sending,  \* gwy.config.disable_sending
    \* the gateway and the frames it sends
    gwy,          \* the gateway: its firmware and the id of its HGI, once started
    tx,           \* the async_send_cmd call: its command, its outcome, the packet returned
    serial,       \* the frames written to the serial port and not yet taken by the firmware
    echo,         \* the frames the firmware has echoed and the protocol has not yet read
    \* the dispatcher
    config,       \* gwy.config: reduce_processing, enable_eavesdrop
    devices,      \* gwy.devices: the ids of the devices created, in order
    binding,      \* the ids of the devices whose binding context is_binding
    children,     \* controller id -> its devices, in order
    loop,         \* the event loop's ready queue: <<device id, call>>, first first
    delivered,    \* history: the <<device id, call>> whose _handle_msg has run, in order
    calls,        \* history: the process_msg calls made: message, outcome, effects
    \* the array fragments
    this,         \* the message received last, merged if it was a fragment: <<>> or <<msg>>
    prev,         \* the message received before it (gwy._prev_msg): <<>> or <<msg>>
    detected,     \* what detect_array_fragment(this, prev) returned for it
    \* Message equality
    cmp,          \* three Messages and what == returned for them
    \* an entity and its readers
    store,        \* the entity: _msgs and _msgz
    stale,        \* the <<code, verb, ctx>> of the stored messages that have expired
    nhandled,     \* the number of messages the entity has handled
    ret,          \* the last call: _handle_msg or a reader, its arguments and what it returned
    \* the construction of a message from a packet
    pkt,          \* the packet handed to Message(pkt)
    built,        \* what the construction gave: the message, or the exception raised
    \* the expiry of a message
    now,          \* gwy._dt_now(), in seconds
    xmsg,         \* a message: dtm, lifespan and _fraction_expired
    xret,         \* the last read of xmsg._expired: when, and what it returned
    \* the parameters of a send
    params,       \* the arguments given to QosParams and SendParams, and the two objects made
    \* the two-way maps of slugs
    maps,         \* the items of each map, as a dict
    mret,         \* the last lookup in a map, or the last operation on one
    \* the validation of the device classes
    checked       \* the message whose classes are checked, the mode, and the outcome

cacheVars == <<ent, fraction, nextId, handled, removed, evicted>>
qosVars == <<cmds, pc, ntx, result, queue, lastTx, timedOut>>
bindVars == <<sup, resp, air, sentFrames>>
schedVars == <<sched, flow, ctl, disable_sending>>
hgiVars == <<gwy, tx, serial, echo>>
dispVars == <<config, devices, binding, children, loop, delivered, calls>>
fragVars == <<this, prev, detected>>
eqVars == <<cmp>>
entVars == <<store, stale, nhandled, ret>>
buildVars == <<pkt, built>>
expVars == <<now, xmsg, xret>>
parVars == <<params>>
mapVars == <<maps, mret>>
slugVars == <<checked>>

vars == <<cacheVars, qosVars, bindVars, schedVars, hgiVars, dispVars, fragVars, eqVars, entVars, buildVars, expVars, parVars, mapVars, slugVars>>

notCache == <<qosVars, bindVars, schedVars, hgiVars, dispVars, fragVars, eqVars, entVars, buildVars, expVars, parVars, mapVars, slugVars>>
notQos == <<cacheVars, bindVars, schedVars, hgiVars, dispVars, fragVars, eqVars, entVars, buildVars, expVars, parVars, mapVars, slugVars>>
notBind == <<cacheVars, qosVars, schedVars, hgiVars, dispVars, fragVars, eqVars, entVars, buildVars, expVars, parVars, mapVars, slugVars>>
notSched == <<cacheVars, qosVars, bindVars, hgiVars, dispVars, fragVars, eqVars, entVars, buildVars, expVars, parVars, mapVars, slugVars>>
notHgi == <<cacheVars, qosVars, bindVars, schedVars, dispVars, fragVars, eqVars, entVars, buildVars, expVars, parVars, mapVars, slugVars>>
notDisp == <<cacheVars, qosVars, bindVars, schedVars, hgiVars, fragVars, eqVars, entVars, buildVars, expVars, parVars, mapVars, slugVars>>
notFrag == <<cacheVars, qosVars, bindVars, schedVars, hgiVars, dispVars, eqVars, entVars, buildVars, expVars, parVars, mapVars, slugVars>>
notEq == <<cacheVars, qosVars, bindVars, schedVars, hgiVars, dispVars, fragVars, entVars, buildVars, expVars, parVars, mapVars, slugVars>>
notEnt == <<cacheVars, qosVars, bindVars, schedVars, hgiVars, dispVars, fragVars, eqVars, buildVars, expVars, parVars, mapVars, slugVars>>
notBuild == <<cacheVars, qosVars, bindVars, schedVars, hgiVars, dispVars, fragVars, eqVars, entVars, expVars, parVars, mapVars, slugVars>>
notExp == <<cacheVars, qosVars, bindVars, schedVars, hgiVars, dispVars, fragVars, eqVars, entVars, buildVars, parVars, mapVars, slugVars>>
notPar == <<cacheVars, qosVars, bindVars, schedVars, hgiVars, dispVars, fragVars, eqVars, entVars, buildVars, expVars, mapVars, slugVars>>
notMap == <<cacheVars, qosVars, bindVars, schedVars, hgiVars, dispVars, fragVars, eqVars, entVars, buildVars, expVars, parVars, slugVars>>
notSlug == <<cacheVars, qosVars, bindVars, schedVars, hgiVars, dispVars, fragVars, eqVars, entVars, buildVars, expVars, parVars, mapVars>>

(***************************************************************************)
(* Bounds of the model.                                                    *)
(***************************************************************************)
MaxMsgs == 2        \* Message objects created in one behaviour
NumCmds == 3        \* send_cmd calls made in one behaviour
MaxFrags == 3       \* fragments of a schedule
MaxVersion == 2     \* versions of the schedule on the controller
MaxCalls == 2       \* process_msg calls made in one behaviour
MaxDtm == 4         \* the latest timestamp of a message, in seconds
MaxArray == 3       \* elements of a merged array
MaxHandled == 3     \* messages the entity with readers handles
MaxNow == 12        \* the clock of the gateway, in seconds
MaxChanged == 1     \* slug maps whose items are changed
MaxArrival == 1     \* the latest arrival of a message whose expiry is read, in seconds

(***************************************************************************)
(* Program constants.                                                      *)
(***************************************************************************)
HAS_EXPIRED == 2             \* Message.HAS_EXPIRED
DEFAULT_MAX_RETRIES == 3     \* typing.DEFAULT_MAX_RETRIES
DEFAULT_TIMEOUT == 30000     \* typing.DEFAULT_TIMEOUT (30.0 s), in milliseconds
_DEFAULT_TX_DELAY == 20      \* typing._DEFAULT_TX_DELAY (0.02 s), in milliseconds
_DEFAULT_TX_COUNT == 1       \* typing._DEFAULT_TX_COUNT

I_ == " I"
RQ == "RQ"
RP == "RP"
W_ == " W"
Verbs == {I_, RQ, RP, W_}

(***************************************************************************)
(* Python dicts: functions with a finite domain.                           *)
(***************************************************************************)
EmptyDict == [k \in {} |-> 0]

DictSet(d, k, v) == [x \in (DOMAIN d) \cup {k} |-> IF x = k THEN v ELSE d[x]]

DictDel(d, k) == [x \in (DOMAIN d) \ {k} |-> d[x]]

(***************************************************************************)
(* The inputs: the messages an entity may be handed.  A message is its id  *)
(* (the identity of the Python object), code, verb, context (_pkt._ctx)    *)
(* and the index keys its payload carries.                                 *)
(***************************************************************************)
Codes == {"30C9", "1260"}
Ctxs == {"00", "FC"}

\* The index keys in the parsed payload of each input frame.
InputPayload(c, x) ==
    IF c = "30C9"
    THEN (IF x = "FC" THEN {"domain_id"} ELSE {"zone_idx"})
    ELSE (IF x = "00" THEN {"dhw_id"} ELSE {})

Inputs == {<<c, v, x, InputPayload(c, x)>> : c \in Codes, v \in Verbs, x \in Ctxs}

EntityIds == {"dev", "ctl", "HW", "zone"}

NoMsg == [id |-> 0, code |-> "", verb |-> "", ctx |-> "", payload |-> {}]

MsgOf(i, c, v, x, p) == [id |-> i, code |-> c, verb |-> v, ctx |-> x, payload |-> p]

(***************************************************************************)
(* Entity.__init__: both stores start empty.                               *)
(***************************************************************************)
Entity == [_msgs |-> EmptyDict, _msgz |-> EmptyDict]

(***************************************************************************)
(* A slip in _handle_msg: only an I message becomes _msgs[code].           *)
(***************************************************************************)
_handle_msg_only_I(obj, msg) ==
    LET z == obj._msgz
        z1 == IF msg.code \notin DOMAIN z
              THEN DictSet(z, msg.code, (msg.verb :> (msg.ctx :> msg)))
              ELSE IF msg.verb \notin DOMAIN z[msg.code]
              THEN [z EXCEPT ![msg.code] = DictSet(@, msg.verb, (msg.ctx :> msg))]
              ELSE [z EXCEPT ![msg.code][msg.verb] = DictSet(@, msg.ctx, msg)]
        m1 == IF msg.verb = I_
              THEN DictSet(obj._msgs, msg.code, msg)
              ELSE obj._msgs
    IN  [_msgs |-> m1, _msgz |-> z1]

(***************************************************************************)
(* A slip in _handle_msg: the dict of the verb is always made anew, so the *)
(* messages of the other contexts are lost.                                *)
(***************************************************************************)
_handle_msg_new_dict(obj, msg) ==
    LET z == obj._msgz
        z1 == IF msg.code \notin DOMAIN z
              THEN DictSet(z, msg.code, (msg.verb :> (msg.ctx :> msg)))
              ELSE [z EXCEPT ![msg.code] = DictSet(@, msg.verb, (msg.ctx :> msg))]
        m1 == IF msg.verb \in {I_, RP}
              THEN DictSet(obj._msgs, msg.code, msg)
              ELSE obj._msgs
    IN  [_msgs |-> m1, _msgz |-> z1]

(***************************************************************************)
(* Entity._handle_msg: insert-or-replace in _msgz[code][verb][ctx]; an I   *)
(* or RP message also becomes _msgs[code].                                 *)
(***************************************************************************)
_handle_msg(obj, msg) ==
    LET z == obj._msgz
        z1 == IF msg.code \notin DOMAIN z
              THEN DictSet(z, msg.code, (msg.verb :> (msg.ctx :> msg)))
              ELSE IF msg.verb \notin DOMAIN z[msg.code]
              THEN [z EXCEPT ![msg.code] = DictSet(@, msg.verb, (msg.ctx :> msg))]
              ELSE [z EXCEPT ![msg.code][msg.verb] = DictSet(@, msg.ctx, msg)]
        m1 == IF msg.verb \in {I_, RP}
              THEN DictSet(obj._msgs, msg.code, msg)
              ELSE obj._msgs
    IN  [_msgs |-> m1, _msgz |-> z1]

(***************************************************************************)
(* Entity._msg_db: the flattened _msgz.                                    *)
(***************************************************************************)
_msg_db(obj) ==
    {obj._msgz[c][v][x] : <<c, v, x>> \in
        {t \in Codes \X Verbs \X Ctxs :
            /\ t[1] \in DOMAIN obj._msgz
            /\ t[2] \in DOMAIN obj._msgz[t[1]]
            /\ t[3] \in DOMAIN obj._msgz[t[1]][t[2]]}}

(***************************************************************************)
(* A slip in _send_cmd: the messages of the code go from _msgz as well.    *)
(***************************************************************************)
_send_cmd_forgets(obj, code) ==
    [_msgs |-> DictDel(obj._msgs, code), _msgz |-> DictDel(obj._msgz, code)]

(***************************************************************************)
(* Entity._send_cmd: self._msgs.pop(code, None), then the command is       *)
(* handed to the gateway.                                                  *)
(***************************************************************************)
_send_cmd(obj, code) == [obj EXCEPT !._msgs = DictDel(@, code)]

(***************************************************************************)
(* expired(msg): the entities whose stores refer to msg, in the order the  *)
(* code lists them.                                                        *)
(***************************************************************************)
entities(msg) ==
    <<"dev">>
    \o (IF "domain_id" \in msg.payload THEN <<"ctl">> ELSE <<>>)
    \o (IF "dhw_id" \in msg.payload THEN <<"HW">> ELSE <<>>)
    \o (IF "zone_idx" \in msg.payload THEN <<"zone">> ELSE <<>>)

(***************************************************************************)
(* A slip in expired(): the maps left empty stay.                          *)
(***************************************************************************)
DelCtx_leaves_empty(z, msg) ==
    IF /\ msg.code \in DOMAIN z
       /\ msg.verb \in DOMAIN z[msg.code]
       /\ msg.ctx \in DOMAIN z[msg.code][msg.verb]
    THEN [z EXCEPT ![msg.code][msg.verb] = DictDel(@, msg.ctx)]
    ELSE z

(***************************************************************************)
(* expired(), lines 156-163: _msgz[code][verb][ctx] goes, and the maps it  *)
(* leaves empty with it; a KeyError leaves _msgz as it was.                *)
(***************************************************************************)
DelCtx(z, msg) ==
    LET found == /\ msg.code \in DOMAIN z
                 /\ msg.verb \in DOMAIN z[msg.code]
                 /\ msg.ctx \in DOMAIN z[msg.code][msg.verb]
        za == [z EXCEPT ![msg.code][msg.verb] = DictDel(@, msg.ctx)]
        zb == IF DOMAIN za[msg.code][msg.verb] = {}
              THEN [za EXCEPT ![msg.code] = DictDel(@, msg.verb)]
              ELSE za
        zc == IF DOMAIN zb[msg.code] = {} THEN DictDel(zb, msg.code) ELSE zb
    IN  IF found THEN zc ELSE z

(***************************************************************************)
(* Two slips in the loop body: _msgs is left alone; _msgs[code] goes       *)
(* whatever its verb.                                                      *)
(***************************************************************************)
expired_obj_keeps_msgs(obj, msg) ==
    [_msgs |-> obj._msgs, _msgz |-> DelCtx(obj._msgz, msg)]

expired_obj_any_verb(obj, msg) ==
    [_msgs |-> DictDel(obj._msgs, msg.code), _msgz |-> DelCtx(obj._msgz, msg)]

(***************************************************************************)
(* The body of expired()'s loop for one entity: _msgs[code] goes when it   *)
(* has msg's verb, then the _msgz entry.                                   *)
(***************************************************************************)
expired_obj(obj, msg) ==
    LET m1 == IF msg.code \in DOMAIN obj._msgs /\ msg.verb = obj._msgs[msg.code].verb
              THEN DictDel(obj._msgs, msg.code)
              ELSE obj._msgs
    IN  [_msgs |-> m1, _msgz |-> DelCtx(obj._msgz, msg)]

(***************************************************************************)
(* expired(msg): nothing happens below HAS_EXPIRED.  Otherwise the loop    *)
(* over entities(msg) runs; its body ends in `return has_expired`, so it   *)
(* returns at the end of the first iteration.                              *)
(***************************************************************************)
expired(E, frac, msg) ==
    IF frac[msg.id] < HAS_EXPIRED
    THEN E
    ELSE LET obj == entities(msg)[1]
         IN  [E EXCEPT ![obj] = expired_obj(@, msg)]

(***************************************************************************)
(* What the stores hold.                                                   *)
(***************************************************************************)
Stored == UNION {_msg_db(ent[e]) : e \in EntityIds}

Range(s) == {s[i] : i \in DOMAIN s}

InLatest(obj, msg) == msg.code \in DOMAIN obj._msgs /\ obj._msgs[msg.code] = msg

InMsgz(obj, msg) == msg \in _msg_db(obj)

(***************************************************************************)
(* The cache's initial state.                                              *)
(***************************************************************************)
InitCache ==
    /\ ent = [e \in EntityIds |-> Entity]
    /\ fraction = [i \in 1..MaxMsgs |-> 0]
    /\ nextId = 1
    /\ handled = [e \in EntityIds |-> [c \in Codes |-> <<>>]]
    /\ removed = [e \in EntityIds |-> [c \in Codes |-> FALSE]]
    /\ evicted = {}

(***************************************************************************)
(* An entity handles a message: a new one, or one that another entity of   *)
(* the message already holds (the same object is routed to the device and  *)
(* to the domain, DHW or zone its payload names).  A handled message has   *)
(* not expired.                                                            *)
(***************************************************************************)
NoteHandled(e, msg) ==
    /\ handled' = IF msg.verb \in {I_, RP}
                  THEN [handled EXCEPT ![e][msg.code] = Append(@, msg.id)]
                  ELSE handled
    /\ removed' = IF msg.verb \in {I_, RP}
                  THEN [removed EXCEPT ![e][msg.code] = FALSE]
                  ELSE removed

HandleNew ==
    /\ nextId <= MaxMsgs
    /\ \E in \in Inputs :
         LET msg == MsgOf(nextId, in[1], in[2], in[3], in[4])
         IN  /\ ent' = [ent EXCEPT !["dev"] = _handle_msg(@, msg)]
             /\ NoteHandled("dev", msg)
    /\ nextId' = nextId + 1
    /\ UNCHANGED <<fraction, evicted>>
    /\ UNCHANGED notCache

HandleRouted ==
    /\ \E msg \in Stored :
         /\ fraction[msg.id] < HAS_EXPIRED
         /\ \E e \in Range(Tail(entities(msg))) :
              /\ ~InMsgz(ent[e], msg)
              /\ msg.id \notin Range(handled[e][msg.code])
              /\ ent' = [ent EXCEPT ![e] = _handle_msg(@, msg)]
              /\ NoteHandled(e, msg)
    /\ UNCHANGED <<fraction, nextId, evicted>>
    /\ UNCHANGED notCache

(***************************************************************************)
(* An entity sends a command for a code.                                   *)
(***************************************************************************)
SendCmd ==
    /\ \E e \in EntityIds, c \in Codes :
         /\ ent' = [ent EXCEPT ![e] = _send_cmd(@, c)]
         /\ removed' = IF c \in DOMAIN ent[e]._msgs
                       THEN [removed EXCEPT ![e][c] = TRUE]
                       ELSE removed
    /\ UNCHANGED <<fraction, nextId, handled, evicted>>
    /\ UNCHANGED notCache

(***************************************************************************)
(* Time passes: a stored message ages.                                     *)
(***************************************************************************)
Tick ==
    /\ \E msg \in Stored :
         /\ fraction[msg.id] < HAS_EXPIRED
         /\ fraction' = [fraction EXCEPT ![msg.id] = @ + 1]
    /\ UNCHANGED <<ent, nextId, handled, removed, evicted>>
    /\ UNCHANGED notCache

(***************************************************************************)
(* A reader calls expired() on a message it found in a store.              *)
(***************************************************************************)
Expired ==
    /\ \E msg \in Stored :
         /\ ent' = expired(ent, fraction, msg)
         /\ removed' = IF fraction[msg.id] >= HAS_EXPIRED
                       THEN [e \in EntityIds |-> [c \in Codes |->
                              IF c = msg.code /\ ent'[e]._msgs # ent[e]._msgs
                              THEN TRUE ELSE removed[e][c]]]
                       ELSE removed
         /\ evicted' = IF fraction[msg.id] >= HAS_EXPIRED
                       THEN evicted \cup {msg.id}
                       ELSE evicted
    /\ UNCHANGED <<fraction, nextId, handled>>
    /\ UNCHANGED notCache

NextCache ==
    \/ HandleNew
    \/ HandleRouted
    \/ SendCmd
    \/ Tick
    \/ Expired

(***************************************************************************)
(* The protocol / QoS send path.  SendPriority, QosParams and SendParams   *)
(* are in ramses_tx/typing.py and Priority in ramses_tx/const.py; the      *)
(* scheduler behind RamsesProtocolT.send_cmd is modelled from section 4.H  *)
(* of the specification: a single writer, a priority queue, and the        *)
(* lifecycle queued -> sent -> echo_seen -> (reply_seen) -> done.          *)
(***************************************************************************)
\* None, among the integers an argument may be.
None == -1

NoResult == "pending"

Priority(name) ==
    CASE name = "LOWEST" -> 4
      [] name = "LOW" -> 2
      [] name = "DEFAULT" -> 0
      [] name = "HIGH" -> -2
      [] name = "HIGHEST" -> -4

SendPriority(name) ==
    CASE name = "_MAX" -> -9
      [] name = "HIGH" -> -2
      [] name = "DEFAULT" -> 0
      [] name = "LOW" -> 2
      [] name = "_MIN" -> 9

\* x or default: None and 0 are false.
Or(x, default) == IF x \in {None, 0} THEN default ELSE x

\* A slip in QosParams.__init__: `max_retries or DEFAULT_MAX_RETRIES`.
QosParams_or_default(max_retries, timeout, wait_for_reply) ==
    [max_retries |-> Or(max_retries, DEFAULT_MAX_RETRIES),
     timeout |-> Or(timeout, DEFAULT_TIMEOUT),
     wait_for_reply |-> wait_for_reply]

\* QosParams.__init__: max_retries=None stands for DEFAULT_MAX_RETRIES;
\* `timeout or DEFAULT_TIMEOUT`; wait_for_reply is kept as it is given.
QosParams(max_retries, timeout, wait_for_reply) ==
    [max_retries |-> IF max_retries = None THEN DEFAULT_MAX_RETRIES ELSE max_retries,
     timeout |-> Or(timeout, DEFAULT_TIMEOUT),
     wait_for_reply |-> wait_for_reply]

\* A slip in SendParams.__init__: the priority given is dropped.
SendParams_default(gap_duration, num_repeats, priority) ==
    [gap_duration |-> Or(gap_duration, _DEFAULT_TX_DELAY),
     num_repeats |-> Or(num_repeats, _DEFAULT_TX_COUNT),
     priority |-> SendPriority("DEFAULT")]

\* A slip in SendParams.__init__: only None stands for a default.
SendParams_is_None(gap_duration, num_repeats, priority) ==
    [gap_duration |-> IF gap_duration = None THEN _DEFAULT_TX_DELAY ELSE gap_duration,
     num_repeats |-> IF num_repeats = None THEN _DEFAULT_TX_COUNT ELSE num_repeats,
     priority |-> IF priority = None THEN SendPriority("DEFAULT") ELSE priority]

\* SendParams.__init__: `gap_duration or _DEFAULT_TX_DELAY`, `num_repeats or
\* _DEFAULT_TX_COUNT`, `priority or SendPriority.DEFAULT`.
SendParams(gap_duration, num_repeats, priority) ==
    [gap_duration |-> Or(gap_duration, _DEFAULT_TX_DELAY),
     num_repeats |-> Or(num_repeats, _DEFAULT_TX_COUNT),
     priority |-> Or(priority, SendPriority("DEFAULT"))]

\* The arguments of the send_cmd calls: priority (a member of either enum,
\* or None), max_retries and wait_for_reply.
CallInputs ==
    {<<SendPriority("HIGH"), 0, FALSE>>,
     <<None, None, TRUE>>,
     <<Priority("LOW"), 1, TRUE>>}

CmdIds == 1..NumCmds

\* A command: its priority and QoS, and the arguments of its call.
NoCmd ==
    [priority |-> 0, max_retries |-> 0, wait_for_reply |-> FALSE,
     args |-> [priority |-> None, max_retries |-> None]]

InFlight == {c \in CmdIds : pc[c] \in {"sent", "echo_seen"}}

\* The queued command to transmit next: the numerically lowest priority
\* value first, the earliest queued among those.
NextToSend(q) ==
    LET best == CHOOSE i \in 1..Len(q) :
                    \A j \in 1..Len(q) :
                        \/ cmds[q[i]].priority < cmds[q[j]].priority
                        \/ cmds[q[i]].priority = cmds[q[j]].priority /\ i <= j
    IN  q[best]

Without(q, c) == SelectSeq(q, LAMBDA d : d # c)

InitQos ==
    /\ cmds = [c \in CmdIds |-> NoCmd]
    /\ pc = [c \in CmdIds |-> "new"]
    /\ ntx = [c \in CmdIds |-> 0]
    /\ result = [c \in CmdIds |-> NoResult]
    /\ queue = <<>>
    /\ lastTx = 0
    /\ timedOut = {}

(***************************************************************************)
(* send_cmd(cmd, priority=..., qos=...): the command joins the queue and   *)
(* the caller awaits its result.  The calls are numbered in the order they *)
(* are made.                                                               *)
(***************************************************************************)
send_cmd(c) ==
    /\ pc[c] = "new"
    /\ \A d \in CmdIds : d < c => pc[d] # "new"
    /\ \E in \in CallInputs :
         LET p == in[1]
             r == in[2]
             w == in[3]
         IN  cmds' = [cmds EXCEPT ![c] =
                        [priority |-> SendParams(None, None, p).priority,
                         max_retries |-> QosParams(r, None, w).max_retries,
                         wait_for_reply |-> QosParams(r, None, w).wait_for_reply,
                         args |-> [priority |-> p, max_retries |-> r]]]
    /\ pc' = [pc EXCEPT ![c] = "queued"]
    /\ queue' = Append(queue, c)
    /\ UNCHANGED <<ntx, result, lastTx, timedOut>>
    /\ UNCHANGED notQos

(***************************************************************************)
(* The writer takes the next command when none is in flight, and writes    *)
(* its frame.                                                              *)
(***************************************************************************)
\* A slip in the scheduler: the next command is taken while one is in flight.
CanSendNext_always == queue # <<>>

CanSendNext == InFlight = {} /\ queue # <<>>

SendNext ==
    /\ CanSendNext
    /\ LET c == NextToSend(queue)
       IN  /\ pc' = [pc EXCEPT ![c] = "sent"]
           /\ ntx' = [ntx EXCEPT ![c] = 1]
           /\ lastTx' = c
           /\ queue' = Without(queue, c)
    /\ UNCHANGED <<cmds, result, timedOut>>
    /\ UNCHANGED notQos

(***************************************************************************)
(* pkt_received: the echo of the in-flight command.  It retires the        *)
(* command when no reply is awaited.                                       *)
(***************************************************************************)
EchoRcvd(c) ==
    /\ pc[c] = "sent"
    /\ IF cmds[c].wait_for_reply
       THEN /\ pc' = [pc EXCEPT ![c] = "echo_seen"]
            /\ UNCHANGED result
       ELSE /\ pc' = [pc EXCEPT ![c] = "done"]
            /\ result' = [result EXCEPT ![c] = "echo"]
    /\ UNCHANGED <<cmds, ntx, queue, lastTx, timedOut>>
    /\ UNCHANGED notQos

(***************************************************************************)
(* pkt_received: the reply to the in-flight command, after its echo.       *)
(***************************************************************************)
ReplyRcvd(c) ==
    /\ pc[c] = "echo_seen"
    /\ pc' = [pc EXCEPT ![c] = "done"]
    /\ result' = [result EXCEPT ![c] = "reply"]
    /\ UNCHANGED <<cmds, ntx, queue, lastTx, timedOut>>
    /\ UNCHANGED notQos

(***************************************************************************)
(* The echo, or the awaited reply, is not seen in its window: the frame is *)
(* written again, from the sent phase, up to max_retries times; then the   *)
(* call fails.                                                             *)
(***************************************************************************)
Retry(c) ==
    IF ntx[c] <= cmds[c].max_retries
    THEN /\ pc' = [pc EXCEPT ![c] = "sent"]
         /\ ntx' = [ntx EXCEPT ![c] = @ + 1]
         /\ lastTx' = c
         /\ UNCHANGED result
    ELSE /\ pc' = [pc EXCEPT ![c] = "done"]
         /\ result' = [result EXCEPT ![c] = "ProtocolSendFailed"]
         /\ UNCHANGED <<ntx, lastTx>>

EchoTimeout(c) ==
    /\ pc[c] = "sent"
    /\ Retry(c)
    /\ UNCHANGED <<cmds, queue, timedOut>>
    /\ UNCHANGED notQos

ReplyTimeout(c) ==
    /\ pc[c] = "echo_seen"
    /\ Retry(c)
    /\ UNCHANGED <<cmds, queue, timedOut>>
    /\ UNCHANGED notQos

(***************************************************************************)
(* The call's timeout elapses, in the queue or in flight: the call fails.  *)
(***************************************************************************)
Timeout(c) ==
    /\ pc[c] \in {"queued", "sent", "echo_seen"}
    /\ pc' = [pc EXCEPT ![c] = "done"]
    /\ result' = [result EXCEPT ![c] = "ProtocolSendFailed"]
    /\ queue' = Without(queue, c)
    /\ timedOut' = timedOut \cup {c}
    /\ UNCHANGED <<cmds, ntx, lastTx>>
    /\ UNCHANGED notQos

NextQos ==
    \/ \E c \in CmdIds : send_cmd(c)
    \/ SendNext
    \/ \E c \in CmdIds : EchoRcvd(c)
    \/ \E c \in CmdIds : ReplyRcvd(c)
    \/ \E c \in CmdIds : EchoTimeout(c)
    \/ \E c \in CmdIds : ReplyTimeout(c)
    \/ \E c \in CmdIds : Timeout(c)

(***************************************************************************)
(* The 1FC9 binding handshake, modelled from section 4.I of the            *)
(* specification and the walk through the states in                        *)
(* tests_rf/test_virt_bindings.py:                                         *)
(*   Supplicant: Idle -> Offering -> Offered -> Confirming -> Confirmed    *)
(*               -> Bound                                                  *)
(*   Respondent: Idle -> Listening -> Accepting -> Accepted                *)
(*               -> BoundAccepted -> Bound                                 *)
(*   Either:     * -> Unbound (timeout)                                    *)
(* The frames travel through `air`, where any of them may be lost or wait  *)
(* for any time.                                                           *)
(***************************************************************************)
CONFIRMS_TO_BIND == 3

OfferCodes == {"30C9"}
CodesInputs == {{"30C9", "2309"}, {"2309"}}

Offer == [kind |-> "offer", n |-> 0]
Accept == [kind |-> "accept", n |-> 0]
Confirm(n) == [kind |-> "confirm", n |-> n]

Terminal == {"Bound", "Unbound"}

InitBind ==
    /\ sup = [state |-> "Idle", sent |-> 0, accepter |-> ""]
    /\ resp = [state |-> "Idle", rcvd |-> 0, tender |-> "", codes |-> {}]
    /\ air = {}
    /\ sentFrames = {}

\* respondent._bind_waiting(codes)
_bind_waiting ==
    /\ resp.state = "Idle"
    /\ \E codes \in CodesInputs :
         resp' = [resp EXCEPT !.state = "Listening", !.codes = codes]
    /\ UNCHANGED <<sup, air, sentFrames>>
    /\ UNCHANGED notBind

\* supplicant._make_fake(bind=True)
_make_fake ==
    /\ sup.state = "Idle"
    /\ sup' = [sup EXCEPT !.state = "Offering"]
    /\ UNCHANGED <<resp, air, sentFrames>>
    /\ UNCHANGED notBind

Transmit(f) ==
    /\ air' = air \cup {f}
    /\ sentFrames' = sentFrames \cup {f}

\* Offering: transmit I/1FC9 (offer) to broadcast, enter Offered.
SendOffer ==
    /\ sup.state = "Offering"
    /\ sup' = [sup EXCEPT !.state = "Offered"]
    /\ Transmit(Offer)
    /\ UNCHANGED resp
    /\ UNCHANGED notBind

\* Listening, on an offer whose codes intersect the respondent's: capture
\* the tender, enter Accepting.
RcvdOffer ==
    /\ resp.state = "Listening"
    /\ Offer \in air
    /\ resp.codes \cap OfferCodes # {}
    /\ resp' = [resp EXCEPT !.state = "Accepting", !.tender = "supplicant"]
    /\ air' = air \ {Offer}
    /\ UNCHANGED <<sup, sentFrames>>
    /\ UNCHANGED notBind

\* Accepting: transmit W/1FC9 (accept) to the tender, enter Accepted.
SendAccept ==
    /\ resp.state = "Accepting"
    /\ resp' = [resp EXCEPT !.state = "Accepted"]
    /\ Transmit(Accept)
    /\ UNCHANGED sup
    /\ UNCHANGED notBind

\* Offered, on an accept: capture the accepter, enter Confirming.
RcvdAccept ==
    /\ sup.state = "Offered"
    /\ Accept \in air
    /\ sup' = [sup EXCEPT !.state = "Confirming", !.accepter = "respondent"]
    /\ air' = air \ {Accept}
    /\ UNCHANGED <<resp, sentFrames>>
    /\ UNCHANGED notBind

\* A slip: the supplicant is Bound after its first confirm.
SupAfterConfirm_first(n) == "Bound"

\* The supplicant's state after its n-th confirm is sent.
SupAfterConfirm(n) == IF n >= CONFIRMS_TO_BIND THEN "Bound" ELSE "Confirmed"

\* Confirming: transmit I/1FC9 (confirm) to the accepter, enter Confirmed;
\* Confirmed: transmit the confirm again, until the third is sent.
_sent_confirm ==
    /\ sup.state \in {"Confirming", "Confirmed"}
    /\ sup' = [sup EXCEPT !.state = SupAfterConfirm(sup.sent + 1), !.sent = @ + 1]
    /\ Transmit(Confirm(sup.sent + 1))
    /\ UNCHANGED resp
    /\ UNCHANGED notBind

\* The respondent's state after the n-th confirm from the tender.
RespAfterConfirm(n) == IF n >= CONFIRMS_TO_BIND THEN "Bound" ELSE "BoundAccepted"

\* Accepted or BoundAccepted, on a confirm from the tender: counter++.
_rcvd_confirm ==
    /\ resp.state \in {"Accepted", "BoundAccepted"}
    /\ \E f \in air :
         /\ f.kind = "confirm"
         /\ air' = air \ {f}
    /\ resp' = [resp EXCEPT !.state = RespAfterConfirm(resp.rcvd + 1), !.rcvd = @ + 1]
    /\ UNCHANGED <<sup, sentFrames>>
    /\ UNCHANGED notBind

\* A frame is lost, or reaches a device that ignores it.
Lose ==
    /\ \E f \in air : air' = air \ {f}
    /\ UNCHANGED <<sup, resp, sentFrames>>
    /\ UNCHANGED notBind

\* A slip: only the Offered and Accepted states have a deadline.
HasDeadline_early(state) == state \in {"Offered", "Accepted"}

\* Any state of a handshake under way has a deadline.
HasDeadline(state) == state \notin Terminal \cup {"Idle"}

\* The deadline elapses without progress: -> Unbound.
SupTimeout ==
    /\ HasDeadline(sup.state)
    /\ sup' = [sup EXCEPT !.state = "Unbound"]
    /\ UNCHANGED <<resp, air, sentFrames>>
    /\ UNCHANGED notBind

RespTimeout ==
    /\ HasDeadline(resp.state)
    /\ resp' = [resp EXCEPT !.state = "Unbound"]
    /\ UNCHANGED <<sup, air, sentFrames>>
    /\ UNCHANGED notBind

NextBind ==
    \/ _bind_waiting
    \/ _make_fake
    \/ SendOffer
    \/ RcvdOffer
    \/ SendAccept
    \/ RcvdAccept
    \/ _sent_confirm
    \/ _rcvd_confirm
    \/ Lose
    \/ SupTimeout
    \/ RespTimeout

(***************************************************************************)
(* The schedule read, modelled from section 4.J of the specification and   *)
(* the packet flow tests_rf/test_rf_schedule.py asserts: RQ/0006, RP/0006, *)
(* then RQ/0404 and RP/0404 for each fragment.  A request is one send_cmd  *)
(* that awaits its reply; its retransmissions are the QoS layer's.         *)
(***************************************************************************)
Pkt(verb, code, frag, total) ==
    [verb |-> verb, code |-> code, frag_number |-> frag, total_frags |-> total]

NoSchedule == <<>>

\* The reader.  op, force_io, out and ret are the call being served, or
\* served last: out is "pending", "schedule" (with ret the schedule),
\* "version" (with ret_version the change_counter), "RuntimeError" or
\* "TimeoutError".
InitSched ==
    /\ sched = [state |-> "idle", frag_number |-> 0, total_frags |-> 0,
                frags |-> <<>>, schedule |-> NoSchedule, version |-> 0, seen |-> 0,
                op |-> "", force_io |-> FALSE, out |-> "",
                ret |-> NoSchedule, ret_version |-> 0]
    /\ flow = <<>>
    /\ ctl = [version |-> 1, total_frags |-> 1]
    /\ disable_sending = FALSE

Reading == sched.state \in {"rq_0006", "rq_0404"}

\* A slip: the cache is never taken for fresh.
CacheIsFresh_never == FALSE

\* The cached schedule is not stale against the last seen change_counter.
CacheIsFresh == sched.schedule # NoSchedule /\ sched.version = sched.seen

\* A slip: disable_sending is not looked at.
MaySend_always == TRUE

\* config.disable_sending: raise on any outbound send.
MaySend == ~disable_sending

\* The call `op` raises RuntimeError: sending is disabled.  Nothing is sent.
Raise(s, op, force_io) ==
    [s EXCEPT !.state = "failed", !.frags = <<>>, !.op = op, !.force_io = force_io,
              !.out = "RuntimeError", !.ret = NoSchedule, !.ret_version = 0]

\* get_schedule(force_io): the cache, or RQ/0006.
get_schedule ==
    /\ ~Reading
    /\ \E force_io \in BOOLEAN :
         IF ~force_io /\ CacheIsFresh
         THEN /\ sched' = [sched EXCEPT !.state = "done", !.op = "get_schedule",
                                        !.force_io = force_io, !.out = "schedule",
                                        !.ret = sched.schedule, !.ret_version = 0]
              /\ flow' = <<>>
         ELSE IF ~MaySend
         THEN /\ sched' = Raise(sched, "get_schedule", force_io)
              /\ flow' = <<>>
         ELSE /\ sched' = [sched EXCEPT !.state = "rq_0006", !.frags = <<>>,
                                        !.frag_number = 0, !.total_frags = 0,
                                        !.op = "get_schedule", !.force_io = force_io,
                                        !.out = "pending", !.ret = NoSchedule,
                                        !.ret_version = 0]
              /\ flow' = <<Pkt(RQ, "0006", 0, 0)>>
    /\ UNCHANGED <<ctl, disable_sending>>
    /\ UNCHANGED notSched

\* tcs._schedule_version(force_io): the last seen change_counter, or RQ/0006.
_schedule_version ==
    /\ ~Reading
    /\ \E force_io \in BOOLEAN :
         IF ~force_io /\ sched.seen # 0
         THEN /\ sched' = [sched EXCEPT !.state = "done", !.op = "_schedule_version",
                                        !.force_io = force_io, !.out = "version",
                                        !.ret = NoSchedule, !.ret_version = sched.seen]
              /\ flow' = <<>>
         ELSE IF ~MaySend
         THEN /\ sched' = Raise(sched, "_schedule_version", force_io)
              /\ flow' = <<>>
         ELSE /\ sched' = [sched EXCEPT !.state = "rq_0006", !.frags = <<>>,
                                        !.frag_number = 0, !.total_frags = 0,
                                        !.op = "_schedule_version",
                                        !.force_io = force_io, !.out = "pending",
                                        !.ret = NoSchedule, !.ret_version = 0]
              /\ flow' = <<Pkt(RQ, "0006", 0, 0)>>
    /\ UNCHANGED <<ctl, disable_sending>>
    /\ UNCHANGED notSched

\* RP/0006 arrives.  A version probe returns the change_counter.  A read
\* returns the cache when its version is the controller's, else it sends
\* RQ/0404 for fragment 1 with total_frags=0.
RcvdRP0006 ==
    /\ sched.state = "rq_0006"
    /\ LET rp == Pkt(RP, "0006", 0, 0)
       IN  IF sched.op = "_schedule_version"
           THEN /\ sched' = [sched EXCEPT !.state = "done", !.seen = ctl.version,
                                          !.out = "version",
                                          !.ret_version = ctl.version]
                /\ flow' = Append(flow, rp)
           ELSE IF sched.schedule # NoSchedule /\ sched.version = ctl.version
           THEN /\ sched' = [sched EXCEPT !.state = "done", !.seen = ctl.version,
                                          !.out = "schedule", !.ret = sched.schedule]
                /\ flow' = Append(flow, rp)
           ELSE IF ~MaySend
           THEN /\ sched' = [Raise(sched, sched.op, sched.force_io)
                                EXCEPT !.seen = ctl.version]
                /\ flow' = Append(flow, rp)
           ELSE /\ sched' = [sched EXCEPT !.state = "rq_0404", !.seen = ctl.version,
                                          !.frag_number = 1, !.total_frags = 0]
                /\ flow' = flow \o <<rp, Pkt(RQ, "0404", 1, 0)>>
    /\ UNCHANGED <<ctl, disable_sending>>
    /\ UNCHANGED notSched

\* A slip: the read goes on after the last fragment.
IsLastFrag_never(frag, total) == FALSE

\* The fragment a reply carries is the last one.
IsLastFrag(frag, total) == frag >= total

\* RP/0404 arrives with the fragment and the authoritative total_frags: the
\* read ends with the last fragment, else RQ/0404 for the next one.
RcvdRP0404 ==
    /\ sched.state = "rq_0404"
    /\ LET i == sched.frag_number
           n == ctl.total_frags
           rp == Pkt(RP, "0404", i, n)
       IN  IF IsLastFrag(i, n)
           THEN /\ sched' = [sched EXCEPT !.state = "done", !.total_frags = n,
                                          !.frags = <<>>,
                                          !.schedule = Append(sched.frags, i),
                                          !.version = sched.seen,
                                          !.out = "schedule",
                                          !.ret = Append(sched.frags, i)]
                /\ flow' = Append(flow, rp)
           ELSE IF ~MaySend
           THEN /\ sched' = Raise(sched, sched.op, sched.force_io)
                /\ flow' = Append(flow, rp)
           ELSE /\ i < MaxFrags + 1
                /\ sched' = [sched EXCEPT !.frag_number = i + 1, !.total_frags = n,
                                          !.frags = Append(@, i)]
                /\ flow' = flow \o <<rp, Pkt(RQ, "0404", i + 1, n)>>
    /\ UNCHANGED <<ctl, disable_sending>>
    /\ UNCHANGED notSched

\* A request times out after its retries: the call fails and the
\* aggregator is discarded.
ReadTimeout ==
    /\ Reading
    /\ sched' = [sched EXCEPT !.state = "failed", !.frags = <<>>,
                              !.out = "TimeoutError"]
    /\ UNCHANGED <<flow, ctl, disable_sending>>
    /\ UNCHANGED notSched

\* Between reads, the schedule on the controller is changed.
ScheduleChanged ==
    /\ ~Reading
    /\ ctl.version < MaxVersion
    /\ \E n \in 1..MaxFrags : ctl' = [version |-> ctl.version + 1, total_frags |-> n]
    /\ UNCHANGED <<sched, flow, disable_sending>>
    /\ UNCHANGED notSched

\* An RP/0006 for another reader is overheard.
SeenRP0006 ==
    /\ ~Reading
    /\ sched.seen # ctl.version
    /\ sched' = [sched EXCEPT !.seen = ctl.version]
    /\ UNCHANGED <<flow, ctl, disable_sending>>
    /\ UNCHANGED notSched

\* gwy.config.disable_sending is set or cleared.
SetDisableSending ==
    /\ \E b \in BOOLEAN :
         /\ b # disable_sending
         /\ disable_sending' = b
    /\ UNCHANGED <<sched, flow, ctl>>
    /\ UNCHANGED notSched

NextSched ==
    \/ get_schedule
    \/ _schedule_version
    \/ RcvdRP0006
    \/ RcvdRP0404
    \/ ReadTimeout
    \/ ScheduleChanged
    \/ SeenRP0006
    \/ SetDisableSending

(***************************************************************************)
(* The gateway's address substitution, modelled from P7 of the             *)
(* specification and tests_rf/test_hgi_behaviors.py: a command is written  *)
(* to the serial port, the firmware transmits and echoes it, or drops it.  *)
(***************************************************************************)
HGI_ID_ == "18:000730"      \* the generic id
NON_DEV_ID == "--:------"
NUL_DEV_ID == "63:262142"
GwyIds == {"18:222222", "18:013393"}

Frame(verb, a0, a1, a2, code, payload) ==
    [verb |-> verb, addr0 |-> a0, addr1 |-> a1, addr2 |-> a2,
     code |-> code, payload |-> payload]

NoFrame == Frame("", "", "", "", "", "")

\* TEST_CMDS, with the test's id replaced by the gateway's.
TEST_CMDS(id) ==
    { Frame(RQ, id, NUL_DEV_ID, NON_DEV_ID, "10E0", "00"),
      Frame(RQ, HGI_ID_, NUL_DEV_ID, NON_DEV_ID, "10E0", "00"),
      Frame(I_, id, id, NON_DEV_ID, "30C9", "000222"),
      Frame(I_, HGI_ID_, id, NON_DEV_ID, "30C9", "000333"),
      Frame(RP, id, HGI_ID_, NON_DEV_ID, "30C9", "000444"),
      Frame(RP, HGI_ID_, HGI_ID_, NON_DEV_ID, "30C9", "000555"),
      Frame(I_, id, NON_DEV_ID, id, "30C9", "000666"),
      Frame(I_, HGI_ID_, NON_DEV_ID, id, "30C9", "000777"),
      Frame(I_, id, NON_DEV_ID, HGI_ID_, "30C9", "000888"),
      Frame(I_, HGI_ID_, NON_DEV_ID, HGI_ID_, "30C9", "000999"),
      Frame(I_, NON_DEV_ID, NON_DEV_ID, id, "0008", "00AA"),
      Frame(I_, NON_DEV_ID, NON_DEV_ID, HGI_ID_, "0008", "00BB") }

InitHgi ==
    /\ gwy = [started |-> FALSE, is_evofw3 |-> FALSE, hgi_id |-> ""]
    /\ tx = [cmd |-> NoFrame, outcome |-> "", pkt |-> NoFrame]
    /\ serial = <<>>
    /\ echo = <<>>

\* gwy.start(): the firmware is told from the boot banner, the HGI's id from
\* its first packet.
Start ==
    /\ ~gwy.started
    /\ \E fw \in BOOLEAN, id \in GwyIds :
         gwy' = [started |-> TRUE, is_evofw3 |-> fw, hgi_id |-> id]
    /\ UNCHANGED <<tx, serial, echo>>
    /\ UNCHANGED notHgi

\* gwy.async_send_cmd(cmd, max_retries=0, wait_for_reply=False): the frame
\* is written to the serial port, as it is.
async_send_cmd ==
    /\ gwy.started
    /\ tx.outcome # "pending"
    /\ serial = <<>> /\ echo = <<>>
    /\ \E cmd \in TEST_CMDS(gwy.hgi_id) :
         /\ tx' = [cmd |-> cmd, outcome |-> "pending", pkt |-> NoFrame]
         /\ serial' = <<cmd>>
    /\ UNCHANGED <<gwy, echo>>
    /\ UNCHANGED notHgi

\* A slip: the generic id is replaced wherever it stands in the frame.
Substitute_all(f, id) ==
    [f EXCEPT !.addr0 = IF @ = HGI_ID_ THEN id ELSE @,
              !.addr1 = IF @ = HGI_ID_ THEN id ELSE @,
              !.addr2 = IF @ = HGI_ID_ THEN id ELSE @]

\* The firmware swaps out addr0 (only) for its own device id.
Substitute(f, id) == [f EXCEPT !.addr0 = id]

\* The firmware takes a frame from the serial port.  With the generic id in
\* addr0 it transmits the frame under its own id; with another addr0, evofw3
\* transmits the frame as it is and HGI80 discards it.  What is transmitted
\* is echoed.
FirmwareTx ==
    /\ serial # <<>>
    /\ LET f == Head(serial)
       IN  /\ serial' = Tail(serial)
           /\ IF f.addr0 = HGI_ID_
              THEN echo' = Append(echo, Substitute(f, gwy.hgi_id))
              ELSE IF gwy.is_evofw3
              THEN echo' = Append(echo, f)
              ELSE echo' = echo
    /\ UNCHANGED <<gwy, tx>>
    /\ UNCHANGED notHgi

\* The echo is read: the call returns it, unless it has failed already.
HgiEchoRcvd ==
    /\ echo # <<>>
    /\ echo' = Tail(echo)
    /\ tx' = IF tx.outcome = "pending"
             THEN [tx EXCEPT !.outcome = "pkt", !.pkt = Head(echo)]
             ELSE tx
    /\ UNCHANGED <<gwy, serial>>
    /\ UNCHANGED notHgi

\* No echo in time, and no retries: ProtocolSendFailed.
HgiSendFailed ==
    /\ tx.outcome = "pending"
    /\ tx' = [tx EXCEPT !.outcome = "ProtocolSendFailed"]
    /\ UNCHANGED <<gwy, serial, echo>>
    /\ UNCHANGED notHgi

NextHgi ==
    \/ Start
    \/ async_send_cmd
    \/ FirmwareTx
    \/ HgiEchoRcvd
    \/ HgiSendFailed

(***************************************************************************)
(* The dispatcher (ramses_rf/dispatcher.py): process_msg validates a       *)
(* message, creates devices from its addresses and schedules the handlers  *)
(* of the devices it is routed to on the event loop.                       *)
(***************************************************************************)
STRICT_MODE == FALSE

DONT_UPDATE_ENTITIES == 1
DONT_CREATE_ENTITIES == 2

Addr(type, number) == [type |-> type, id |-> type \o ":" \o number]

CTL_1 == Addr("01", "078710")
CTL_2 == Addr("01", "144246")
HGI_1 == Addr("18", "013393")
HGI_0 == Addr("18", "000730")
BDR_1 == Addr("13", "049798")
FAN_1 == Addr("29", "151550")
FAN_2 == Addr("29", "237552")

\* DEV_TYPE_MAP.HEAT_DEVICES
HEAT_DEVICES ==
    {"00", "01", "02", "03", "04", "07", "10", "12", "13", "17", "22", "30", "34"}

\* The codes of the model, by domain.
CODES_OF_HEAT_DOMAIN == {"0001", "1F09", "30C9", "10E0", "1FC9"}
CODES_OF_HVAC_DOMAIN == {"10E0", "1FC9", "22F3"}
CODES_OF_HEAT_DOMAIN_ONLY == CODES_OF_HEAT_DOMAIN \ CODES_OF_HVAC_DOMAIN
CODES_OF_HVAC_DOMAIN_ONLY == CODES_OF_HVAC_DOMAIN \ CODES_OF_HEAT_DOMAIN

\* The devices that can be faked, and those that have devices of their own.
IsFakeable(id) == id \in {BDR_1.id}
HasDevices(id) == id \in {CTL_1.id, CTL_2.id}

\* The ids get_device refuses (the block list).
block_list == {FAN_2.id}

\* A message: phase is payload["phase"] ("" when the payload has no such
\* key, as has the {} of an RQ without payload).
Msg(verb, src, dst, code, phase) ==
    [verb |-> verb, src |-> src, dst |-> dst, code |-> code, phase |-> phase]

Msgs ==
    { Msg(I_, HGI_1, HGI_0, "0001", ""),
      Msg(I_, CTL_1, CTL_2, "1F09", ""),
      Msg(I_, CTL_1, CTL_2, "10E0", ""),
      Msg(I_, CTL_1, CTL_2, "22F3", ""),
      Msg(I_, CTL_1, CTL_1, "30C9", ""),
      Msg(I_, CTL_2, CTL_2, "30C9", ""),
      Msg(RQ, HGI_0, CTL_1, "30C9", ""),
      Msg(RP, CTL_1, HGI_0, "30C9", ""),
      Msg(I_, BDR_1, CTL_1, "10E0", ""),
      Msg(RP, CTL_1, BDR_1, "0001", ""),
      Msg(I_, FAN_1, FAN_2, "22F3", ""),
      Msg(I_, FAN_2, FAN_2, "22F3", ""),
      Msg(I_, FAN_1, FAN_1, "1FC9", "offer"),
      Msg(I_, BDR_1, BDR_1, "1FC9", "offer"),
      Msg(W_, CTL_1, FAN_1, "1FC9", "accept"),
      Msg(RQ, CTL_1, FAN_1, "1FC9", "") }

InSeq(q, x) == \E i \in 1..Len(q) : q[i] = x

RECURSIVE SelectIds(_, _)
SelectIds(q, S) ==
    IF q = <<>> THEN <<>>
    ELSE IF Head(q) \in S THEN <<Head(q)>> \o SelectIds(Tail(q), S)
    ELSE SelectIds(Tail(q), S)

InitDisp ==
    /\ config = [reduce_processing |-> 0, enable_eavesdrop |-> FALSE]
    /\ devices = <<>>
    /\ binding = {}
    /\ children = [c \in {CTL_1.id, CTL_2.id} |-> <<>>]
    /\ loop = <<>>
    /\ delivered = <<>>
    /\ calls = <<>>

\* _check_msg_addrs: what it raises or logs.
_check_msg_addrs(msg) ==
    IF /\ msg.src.id # msg.dst.id
       /\ msg.src.type = msg.dst.type
       /\ msg.src.type \in HEAT_DEVICES
    THEN IF msg.code \in CODES_OF_HEAT_DOMAIN_ONLY THEN "PacketAddrSetInvalid"
         ELSE IF msg.code \in CODES_OF_HEAT_DOMAIN THEN "warning"
         ELSE IF msg.code \notin CODES_OF_HVAC_DOMAIN_ONLY THEN "info"
         ELSE ""
    ELSE ""

\* A slip: the destination is created only while few devices are known.
CreateDst_few(devs, msg) ==
    IF ~config.enable_eavesdrop THEN devs
    ELSE IF ~InSeq(devs, msg.dst.id) /\ msg.src.id # HGI_0.id
              /\ msg.dst.id \notin block_list /\ Len(devs) <= 1
    THEN Append(devs, msg.dst.id)
    ELSE devs

\* A slip: the destination is created whether or not the gateway
\* eavesdrops.
CreateDst_always(devs, msg) ==
    IF ~InSeq(devs, msg.dst.id) /\ msg.src.id # HGI_0.id
          /\ msg.dst.id \notin block_list
    THEN Append(devs, msg.dst.id)
    ELSE devs

\* The eavesdropping half of _create_devices_from_addrs: the destination is
\* created, unless the source is the gateway; a LookupError is swallowed.
CreateDst(devs, msg) ==
    IF ~config.enable_eavesdrop THEN devs
    ELSE IF ~InSeq(devs, msg.dst.id) /\ msg.src.id # HGI_0.id
              /\ msg.dst.id \notin block_list
    THEN Append(devs, msg.dst.id)
    ELSE devs

\* A slip: the LookupError of the source is swallowed as the one of the
\* destination is.
_create_devices_from_addrs_swallow(devs, msg) ==
    IF ~InSeq(devs, msg.src.id) /\ msg.src.id \notin block_list
    THEN IF msg.dst.id = msg.src.id
         THEN [raised |-> "", devices |-> Append(devs, msg.src.id)]
         ELSE [raised |-> "", devices |-> CreateDst(Append(devs, msg.src.id), msg)]
    ELSE [raised |-> "", devices |-> CreateDst(devs, msg)]

\* _create_devices_from_addrs: gwy.devices afterwards, and what it raises.
_create_devices_from_addrs(devs, msg) ==
    IF ~InSeq(devs, msg.src.id)
    THEN IF msg.src.id \in block_list
         THEN [raised |-> "LookupError", devices |-> devs]
         ELSE IF msg.dst.id = msg.src.id
         THEN [raised |-> "", devices |-> Append(devs, msg.src.id)]
         ELSE [raised |-> "", devices |-> CreateDst(Append(devs, msg.src.id), msg)]
    ELSE [raised |-> "", devices |-> CreateDst(devs, msg)]

\* _check_src_slug and _check_dst_slug raise PacketInvalid only in
\* STRICT_MODE, when the verb/code pair is not one of the device class's.
_check_slugs(invalid) == IF STRICT_MODE /\ invalid THEN "PacketInvalid" ELSE ""

\* A slip: the devices of the source are recipients besides a fakeable
\* destination (an `if` where the code has `elif`).
Route_union(devs, msg) ==
    LET first == <<msg.src.id>>
        own == IF HasDevices(msg.src.id) THEN children[msg.src.id] ELSE <<>>
    IN  IF msg.dst.id # msg.src.id /\ InSeq(devs, msg.dst.id) /\ IsFakeable(msg.dst.id)
        THEN [raised |-> "", scheduled |-> first \o <<msg.dst.id>> \o own]
        ELSE IF msg.code = "1FC9" /\ msg.phase = ""
        THEN [raised |-> "KeyError", scheduled |-> first]
        ELSE IF msg.code = "1FC9" /\ msg.phase = "offer"
        THEN [raised |-> "",
              scheduled |-> first \o
                  SelectIds(devs, {d \in binding : d # msg.src.id /\ IsFakeable(d)})]
        ELSE [raised |-> "", scheduled |-> first \o own]

\* A slip: the source is not excluded from the devices that are binding.
Route_with_src(devs, msg) ==
    LET first == <<msg.src.id>>
    IN  IF msg.dst.id # msg.src.id /\ InSeq(devs, msg.dst.id) /\ IsFakeable(msg.dst.id)
        THEN [raised |-> "", scheduled |-> first \o <<msg.dst.id>>]
        ELSE IF msg.code = "1FC9" /\ msg.phase = ""
        THEN [raised |-> "KeyError", scheduled |-> first]
        ELSE IF msg.code = "1FC9" /\ msg.phase = "offer"
        THEN [raised |-> "",
              scheduled |-> first \o SelectIds(devs, {d \in binding : IsFakeable(d)})]
        ELSE IF HasDevices(msg.src.id)
        THEN [raised |-> "", scheduled |-> first \o children[msg.src.id]]
        ELSE [raised |-> "", scheduled |-> first]

\* The routing of process_msg: the handlers scheduled, in order, and what
\* is raised after the source's handler was scheduled.
Route(devs, msg) ==
    LET first == <<msg.src.id>>
    IN  IF msg.dst.id # msg.src.id /\ InSeq(devs, msg.dst.id) /\ IsFakeable(msg.dst.id)
        THEN [raised |-> "", scheduled |-> first \o <<msg.dst.id>>]
        ELSE IF msg.code = "1FC9" /\ msg.phase = ""
        THEN [raised |-> "KeyError", scheduled |-> first]
        ELSE IF msg.code = "1FC9" /\ msg.phase = "offer"
        THEN [raised |-> "",
              scheduled |-> first \o
                  SelectIds(devs, {d \in binding : d # msg.src.id /\ IsFakeable(d)})]
        ELSE IF HasDevices(msg.src.id)
        THEN [raised |-> "", scheduled |-> first \o children[msg.src.id]]
        ELSE [raised |-> "", scheduled |-> first]

\* The classes of an exception: its own and its bases'.
Classes(e) ==
    CASE e = "PacketAddrSetInvalid" -> {e, "PacketInvalid", "RamsesException"}
      [] e = "PacketInvalid" -> {e, "RamsesException"}
      [] e = "KeyError" -> {e, "LookupError"}
      [] OTHER -> {e}

\* A slip: the second except clause is missing.
Handled_first_only(e) ==
    Classes(e) \cap {"AssertionError", "RamsesException", "NotImplementedError"} # {}

\* The except clauses of process_msg catch the exception.
Handled(e) ==
    \/ Classes(e) \cap {"AssertionError", "RamsesException", "NotImplementedError"} # {}
    \/ Classes(e) \cap {"AttributeError", "LookupError", "TypeError", "ValueError"} # {}

\* A slip: an invalid address set is logged, and the message goes on.
Raises_never(raised) == FALSE

\* The statement raises: the try block ends there.
Raises(raised) == raised # ""

\* A slip: processing is reduced only above the level.
Reduced_gt(level) == config.reduce_processing > level

\* gwy.config.reduce_processing >= level
Reduced(level) == config.reduce_processing >= level

\* process_msg(gwy, msg): the call's outcome.  What is raised ends the try
\* block; it leaves process_msg when no except clause catches it.
OutcomeFrom(devs, msg, invalid) ==
    LET addrs == _check_msg_addrs(msg)
        made == _create_devices_from_addrs(devs, msg)
        slugs == _check_slugs(invalid)
        route == Route(made.devices, msg)
        none == [msg |-> msg, log |-> "", raised |-> "", propagated |-> FALSE,
                 devices |-> devs, scheduled |-> <<>>]
    IN  IF addrs = "PacketAddrSetInvalid" /\ Raises(addrs)
        THEN [none EXCEPT !.raised = addrs, !.propagated = ~Handled(addrs)]
        ELSE LET base == [none EXCEPT !.log = IF addrs = "PacketAddrSetInvalid"
                                              THEN "warning" ELSE addrs]
             IN  IF Reduced(DONT_CREATE_ENTITIES)
                 THEN base
                 ELSE IF Raises(made.raised)
                 THEN [base EXCEPT !.raised = made.raised,
                                   !.propagated = /\ "LookupError" \notin Classes(made.raised)
                                                  /\ ~Handled(made.raised)]
                 ELSE IF Raises(slugs)
                 THEN [base EXCEPT !.raised = slugs, !.propagated = ~Handled(slugs),
                                   !.devices = made.devices]
                 ELSE IF Reduced(DONT_UPDATE_ENTITIES)
                 THEN [base EXCEPT !.devices = made.devices]
                 ELSE [base EXCEPT !.raised = route.raised,
                                   !.propagated = Raises(route.raised)
                                                  /\ ~Handled(route.raised),
                                   !.devices = made.devices,
                                   !.scheduled = route.scheduled]

Outcome(msg, invalid) == OutcomeFrom(devices, msg, invalid)

\* A slip: the handler is called where it should be scheduled.
call_now(run, callback) ==
    [loop |-> run.loop, delivered |-> Append(run.delivered, callback)]

\* gwy._loop.call_soon(d._handle_msg, msg): the callback joins the loop's
\* ready callbacks, and nothing is run.
call_soon(run, callback) ==
    [loop |-> Append(run.loop, callback), delivered |-> run.delivered]

\* The call_soon of process_msg, one for each handler of call n.
RECURSIVE Schedule(_, _, _)
Schedule(run, scheduled, n) ==
    IF scheduled = <<>> THEN run
    ELSE Schedule(call_soon(run, <<Head(scheduled), n>>), Tail(scheduled), n)

process_msg ==
    /\ Len(calls) < MaxCalls
    /\ \E msg \in Msgs, invalid \in BOOLEAN :
         LET out == Outcome(msg, invalid)
             n == Len(calls) + 1
             run == Schedule([loop |-> loop, delivered |-> delivered], out.scheduled, n)
         IN  /\ calls' = Append(calls, out)
             /\ devices' = out.devices
             /\ loop' = run.loop
             /\ delivered' = run.delivered
    /\ UNCHANGED <<config, binding, children>>
    /\ UNCHANGED notDisp

\* A slip: the loop runs any of its ready callbacks.
Ready_any == 1..Len(loop)

\* The loop runs its ready callbacks first in, first out.
Ready == {1}

\* The event loop runs a callback: a device's _handle_msg.
RunCallback ==
    /\ loop # <<>>
    /\ \E i \in Ready :
         /\ i <= Len(loop)
         /\ delivered' = Append(delivered, loop[i])
         /\ loop' = SubSeq(loop, 1, i - 1) \o SubSeq(loop, i + 1, Len(loop))
    /\ UNCHANGED <<config, devices, binding, children, calls>>
    /\ UNCHANGED notDisp

\* The gateway is configured, before it reads any packet.
SetConfig ==
    /\ calls = <<>>
    /\ \E rp \in {0, DONT_UPDATE_ENTITIES, DONT_CREATE_ENTITIES}, ee \in BOOLEAN :
         /\ config' = [reduce_processing |-> rp, enable_eavesdrop |-> ee]
         /\ config' # config
    /\ UNCHANGED <<devices, binding, children, loop, delivered, calls>>
    /\ UNCHANGED notDisp

\* A faked device starts binding.
StartBinding ==
    /\ \E d \in {devices[i] : i \in 1..Len(devices)} :
         /\ IsFakeable(d)
         /\ d \notin binding
         /\ binding' = binding \cup {d}
    /\ UNCHANGED <<config, devices, loop, delivered, children, calls>>
    /\ UNCHANGED notDisp

\* A device is made one of a controller's devices.
SetCtl ==
    /\ \E d \in {devices[i] : i \in 1..Len(devices)}, c \in DOMAIN children :
         /\ InSeq(devices, c)
         /\ ~HasDevices(d)
         /\ d # HGI_0.id
         /\ \A k \in DOMAIN children : ~InSeq(children[k], d)
         /\ children' = [children EXCEPT ![c] = Append(@, d)]
    /\ UNCHANGED <<config, devices, binding, loop, delivered, calls>>
    /\ UNCHANGED notDisp

NextDisp ==
    \/ process_msg
    \/ RunCallback
    \/ SetConfig
    \/ StartBinding
    \/ SetCtl

(***************************************************************************)
(* Array fragments (dispatcher.detect_array_fragment): a message that is   *)
(* the latter half of an array is merged with the message before it.       *)
(* Times are in seconds.                                                   *)
(***************************************************************************)
_TD_SECONDS_003 == 3

FragCodes == {"000A", "22C9", "2309"}
FragSrcs == {Addr("01", "158182"), Addr("02", "001107")}
FragPayloads == {<<0, 1>>, <<8>>}

\* pkt._has_array: the raw payload holds more than one element.
HasArray(payload) == Len(payload) > 1

FragMsg(verb, src, code, dtm, payload) ==
    [verb |-> verb, src |-> src, code |-> code, dtm |-> dtm,
     payload |-> payload, _has_array |-> HasArray(payload)]

FragMsgs ==
    {FragMsg(verb, src, code, dtm, payload) :
        verb \in {I_, RP}, src \in FragSrcs, code \in FragCodes,
        dtm \in 0..MaxDtm, payload \in FragPayloads}

InitFrag ==
    /\ this = <<>>
    /\ prev = <<>>
    /\ detected = FALSE

\* A slip: three seconds after prev is still in time.
InTime_le(this_dtm, prev_dtm) == this_dtm <= prev_dtm + _TD_SECONDS_003

\* this.dtm < prev.dtm + _TD_SECONDS_003
InTime(this_dtm, prev_dtm) == this_dtm < prev_dtm + _TD_SECONDS_003

\* detect_array_fragment(this, prev), as a truth value; p is <<>> for None.
detect_array_fragment(t, p) ==
    /\ p # <<>>
    /\ p[1]._has_array
    /\ t.code \in {"000A", "22C9"}
    /\ t.code = p[1].code
    /\ t.verb = p[1].verb /\ p[1].verb = I_
    /\ t.src = p[1].src
    /\ InTime(t.dtm, p[1].dtm)

\* The merged message: prev's array, then this message's elements.
Merge(t, p) == [t EXCEPT !.payload = p.payload \o t.payload, !._has_array = TRUE]

\* A message is received: it is merged with the one before it when it is
\* the latter half of an array, and becomes the previous message.
RcvdMsg ==
    /\ \E msg \in FragMsgs :
         LET d == detect_array_fragment(msg, this)
         IN  /\ d => Len(this[1].payload) + Len(msg.payload) <= MaxArray
             /\ detected' = d
             /\ prev' = this
             /\ this' = IF d THEN <<Merge(msg, this[1])>> ELSE <<msg>>
    /\ UNCHANGED notFrag

NextFrag == RcvdMsg

(***************************************************************************)
(* Message equality (MessageBase.__eq__).                                  *)
(***************************************************************************)
\* A Message: the fields MessageBase.__init__ takes from its packet.
Message(src, dst, verb, code, payload, dtm, rssi, seqn) ==
    [src |-> src, dst |-> dst, verb |-> verb, code |-> code,
     dtm |-> dtm, seqn |-> seqn,
     _pkt |-> [payload |-> payload, rssi |-> rssi, dtm |-> dtm]]

EqBase == Message(CTL_1, CTL_1, I_, "30C9", "0007D0", 0, "---", "---")

\* The base message, and the messages that differ from it in one of src,
\* dst, verb, code and raw payload.
EqKeys ==
    { EqBase,
      [EqBase EXCEPT !.src = CTL_2],
      [EqBase EXCEPT !.dst = CTL_2],
      [EqBase EXCEPT !.verb = RP],
      [EqBase EXCEPT !.code = "2309"],
      [EqBase EXCEPT !._pkt.payload = "0107D0"] }

\* Each of them as received at another time, with another RSSI, with
\* another sequence number.
EqMsgs ==
    UNION { { m,
              [m EXCEPT !.dtm = MaxDtm, !._pkt.dtm = MaxDtm],
              [m EXCEPT !._pkt.rssi = "045"],
              [m EXCEPT !.seqn = "001"] } : m \in EqKeys }

\* A slip: the timestamp is compared as well.
__eq__with_dtm(self, other) ==
    <<self.src, self.dst, self.verb, self.code, self._pkt.payload, self.dtm>>
        = <<other.src, other.dst, other.verb, other.code, other._pkt.payload, other.dtm>>

\* MessageBase.__eq__(self, other), for another Message.
__eq__(self, other) ==
    <<self.src, self.dst, self.verb, self.code, self._pkt.payload>>
        = <<other.src, other.dst, other.verb, other.code, other._pkt.payload>>

Compared(a, b, c) ==
    [a |-> a, b |-> b, c |-> c,
     aa |-> __eq__(a, a), ab |-> __eq__(a, b), ba |-> __eq__(b, a),
     bc |-> __eq__(b, c), ac |-> __eq__(a, c)]

InitEq == cmp = Compared(EqBase, EqBase, EqBase)

\* A message is compared with itself and with the two before it, and these
\* with each other.
Compare ==
    /\ \E m \in EqMsgs : cmp' = Compared(m, cmp.a, cmp.b)
    /\ UNCHANGED notEq

NextEq == Compare

(***************************************************************************)
(* An entity and its readers (ramses_rf/entities.py): _handle_msg files a  *)
(* message; _get_msg_value, _msg_payload and _msg_expired read the latest  *)
(* message of a code.  A payload is a dict (a function from its keys) or a *)
(* list of dicts.                                                          *)
(***************************************************************************)
\* The keys of the model's payloads that begin with "_".
UnderscoreKeys == {"_unknown"}

\* k[:1] != "_"
IsPublic(k) == k \notin UnderscoreKeys

PayloadKeys == {"zone_idx", "temperature", "_unknown"}

\* The parsed payloads: a dict for 30C9, a list of dicts for 000A.
EntPayload(code, ctx) ==
    IF code = "30C9"
    THEN [is_list |-> FALSE,
          dict |-> [k \in PayloadKeys |-> IF ctx = "00" THEN 0 ELSE 1],
          list |-> <<>>]
    ELSE [is_list |-> TRUE,
          dict |-> EmptyDict,
          list |-> << [k \in PayloadKeys |-> 0], [k \in PayloadKeys |-> 1] >>]

EntMsg(code, verb, ctx) ==
    [code |-> code, verb |-> verb, ctx |-> ctx, payload |-> EntPayload(code, ctx)]

EntMsgs ==
    {EntMsg("30C9", v, x) : v \in Verbs, x \in Ctxs} \cup {EntMsg("000A", I_, "00")}

EntCodes == {"30C9", "000A"}

\* What a call returned: None, a dict, a list, a value, True, or the
\* exception it raised.
Ret(fn, code, key, kind, dict, list, value) ==
    [fn |-> fn, code |-> code, key |-> key, kind |-> kind,
     dict |-> dict, list |-> list, value |-> value,
     expired |-> FALSE, msg |-> <<"", "", "">>, before |-> Entity]

RetNone(fn, code, key) == Ret(fn, code, key, "None", EmptyDict, <<>>, None)

InitEnt ==
    /\ store = Entity
    /\ stale = {}
    /\ nhandled = 0
    /\ ret = RetNone("", "", "")

KeyOf(msg) == <<msg.code, msg.verb, msg.ctx>>

\* msg._expired, for a stored message
IsStale(msg) == KeyOf(msg) \in stale

\* payload.get(key)
DictGet(fn, code, key, d) ==
    IF key \in DOMAIN d
    THEN Ret(fn, code, key, "value", EmptyDict, <<>>, d[key])
    ELSE RetNone(fn, code, key)

\* {k: v for k, v in d.items() if k in keep}
DictFilter(d, keep) == [k \in (DOMAIN d) \cap keep |-> d[k]]

\* Entity._get_msg_value(code, key): key is "" for None.
_get_msg_value(obj, code, key) ==
    LET fn == "_get_msg_value"
    IN  IF code \in DOMAIN obj._msgs
        THEN LET payload == obj._msgs[code].payload
             IN  IF payload.is_list
                 THEN Ret(fn, code, key, "list", EmptyDict, payload.list, None)
                 ELSE IF key # ""
                 THEN DictGet(fn, code, key, payload.dict)
                 ELSE Ret(fn, code, key, "dict",
                          DictFilter(payload.dict,
                                     {k \in PayloadKeys :
                                        IsPublic(k) /\ k \notin {"domain_id", "zone_idx"}}),
                          <<>>, None)
        ELSE RetNone(fn, code, key)

\* Entity._msg_payload(msg, key), for msg = self._msgs.get(code): a list
\* has neither get nor items.
_msg_payload(obj, code, key) ==
    LET fn == "_msg_payload"
    IN  IF code \in DOMAIN obj._msgs /\ ~IsStale(obj._msgs[code])
        THEN LET payload == obj._msgs[code].payload
             IN  IF payload.is_list
                 THEN Ret(fn, code, key, "AttributeError", EmptyDict, <<>>, None)
                 ELSE IF key # ""
                 THEN DictGet(fn, code, key, payload.dict)
                 ELSE Ret(fn, code, key, "dict",
                          DictFilter(payload.dict, {k \in PayloadKeys : IsPublic(k)}),
                          <<>>, None)
        ELSE RetNone(fn, code, key)

\* Entity._msg_expired(msg_name), for the attribute that holds
\* self._msgs.get(code): True for a message that has not expired.
_msg_expired(obj, code) ==
    LET fn == "_msg_expired"
    IN  IF code \notin DOMAIN obj._msgs THEN RetNone(fn, code, "")
        ELSE IF IsStale(obj._msgs[code]) THEN RetNone(fn, code, "")
        ELSE Ret(fn, code, "", "True", EmptyDict, <<>>, None)

\* The entity handles a message; a message that arrives has not expired.
EntHandle ==
    /\ nhandled < MaxHandled
    /\ \E msg \in EntMsgs :
         /\ store' = _handle_msg(store, msg)
         /\ stale' = stale \ {KeyOf(msg)}
         /\ ret' = [Ret("_handle_msg", msg.code, "", "None", EmptyDict, <<>>, None)
                       EXCEPT !.msg = KeyOf(msg), !.before = store]
    /\ nhandled' = nhandled + 1
    /\ UNCHANGED notEnt

\* A reader is called: the stores are not assigned to.
EntRead ==
    /\ \E code \in EntCodes, key \in PayloadKeys \cup {""} :
         \E r \in {_get_msg_value(store, code, key), _msg_payload(store, code, key),
                   _msg_expired(store, code)} :
            ret' = [r EXCEPT !.expired = code \in DOMAIN store._msgs
                                           /\ IsStale(store._msgs[code]),
                             !.before = store]
    /\ ret' # ret
    /\ UNCHANGED <<store, stale, nhandled>>
    /\ UNCHANGED notEnt

\* Time passes: the latest message of a code expires.
EntExpire ==
    /\ \E code \in DOMAIN store._msgs :
         /\ KeyOf(store._msgs[code]) \notin stale
         /\ stale' = stale \cup {KeyOf(store._msgs[code])}
    /\ UNCHANGED <<store, nhandled, ret>>
    /\ UNCHANGED notEnt

NextEnt ==
    \/ EntHandle
    \/ EntRead
    \/ EntExpire

(***************************************************************************)
(* The construction of a Message from a packet (ramses_tx/message.py):     *)
(* __init__ calls _validate, which checks the payload against the regex of *)
(* the verb/code pair, parses it and merges the index key of _idx.         *)
(* Packet, CODES_SCHEMA, the two IDX_COMPLEX sets and the parsers are not  *)
(* in src/: a packet carries what they give.                               *)
(***************************************************************************)
\* The regexes of the model's payload grammar and the payloads each one
\* matches.
RE_IDX == "^0[0-9A-F]$"
RE_ONE == "^[0-9A-F]{2}[0-9A-F]{4}$"
RE_ARRAY == "^([0-9A-F]{2}[0-9A-F]{4})+$"

BuildPayloads == {"00", "0007D0", "0107D0", "FC07D0", "0007D00107D0"}

re_compile_re_match(regex, payload) ==
    CASE regex = RE_IDX -> payload \in {"00"}
      [] regex = RE_ONE -> payload \in {"0007D0", "0107D0", "FC07D0"}
      [] regex = RE_ARRAY -> payload \in {"0007D0", "0107D0", "FC07D0", "0007D00107D0"}

CODES_SCHEMA ==
    [c \in {"30C9", "31DA", "1260", "3220", "000A", "000C", "10E0"} |->
        CASE c \in {"30C9", "000A"} ->
                (I_ :> RE_ARRAY) @@ (RQ :> RE_IDX) @@ (RP :> RE_ONE) @@ (W_ :> RE_ONE)
          [] c = "3220" -> (RQ :> RE_ONE) @@ (RP :> RE_ONE)
          [] c = "000C" -> (RQ :> RE_ONE) @@ (RP :> RE_ARRAY)
          [] OTHER -> (I_ :> RE_ONE) @@ (RQ :> RE_IDX) @@ (RP :> RE_ONE)]

CODE_IDX_COMPLEX == {"000C"}
RQ_IDX_COMPLEX == {"000C"}

BuildCodes == DOMAIN CODES_SCHEMA \cup {"FFFF"}

\* DEV_TYPE_MAP
DEV_CTL == "01"
DEV_UFC == "02"
DEV_HCW == "03"
DEV_TRV == "04"
DEV_DTS == "12"
DEV_HGI == "18"
DEV_DT2 == "22"
DEV_PRG == "23"

BuildTypes == {DEV_CTL, DEV_UFC, DEV_TRV, DEV_DTS}

\* What parse_payload does with the packet: it returns a dict, a list or
\* something else, or raises.
ParseRaises ==
    {"PacketInvalid", "PacketPayloadInvalid", "AssertionError", "NotImplementedError",
     "AttributeError", "KeyError", "TypeError", "ValueError"}

ParseOutcomes == {"dict", "list", "str"} \cup ParseRaises

PktFields ==
    [code |-> BuildCodes, verb |-> Verbs, src |-> BuildTypes, dst |-> BuildTypes,
     payload |-> BuildPayloads, parsed |-> ParseOutcomes]

\* pkt._idx: False for a code without index, True for an array, else the
\* first byte of the payload.
Pkt_idx(p) ==
    CASE p.code = "10E0" -> "False"
      [] p.payload = "0007D00107D0" -> "True"
      [] p.payload = "0107D0" -> "01"
      [] p.payload = "FC07D0" -> "FC"
      [] OTHER -> "00"

\* pkt._has_payload: there is more than the index byte.
_has_payload(p) == p.payload # "00"

\* idx[:1] == "F"
StartsWithF(idx) == idx \in {"FC"}

\* isinstance(e, cls)
IsInstance(e, cls) ==
    \/ e = cls
    \/ e = "PacketPayloadInvalid" /\ cls = "PacketInvalid"
    \/ e = "KeyError" /\ cls = "LookupError"

Raised(e, text) == [raised |-> e, text |-> text]

NotRaised == Raised("", "")

\* A slip in _check_msg_payload: the regex of some verb of the code is
\* tried before the verb is looked up.
_check_msg_payload_regex_first(p) ==
    IF p.code \notin DOMAIN CODES_SCHEMA
    THEN Raised("PacketInvalid", "Unknown code")
    ELSE IF \A v \in DOMAIN CODES_SCHEMA[p.code] :
               ~re_compile_re_match(CODES_SCHEMA[p.code][v], p.payload)
    THEN Raised("PacketPayloadInvalid", "Payload doesn't match")
    ELSE IF p.verb \notin DOMAIN CODES_SCHEMA[p.code]
    THEN Raised("PacketInvalid", "Unknown verb/code pair")
    ELSE IF ~re_compile_re_match(CODES_SCHEMA[p.code][p.verb], p.payload)
    THEN Raised("PacketPayloadInvalid", "Payload doesn't match")
    ELSE NotRaised

\* _check_msg_payload(msg, payload)
_check_msg_payload(p) ==
    IF p.code \notin DOMAIN CODES_SCHEMA
    THEN Raised("PacketInvalid", "Unknown code")
    ELSE IF p.verb \notin DOMAIN CODES_SCHEMA[p.code]
    THEN Raised("PacketInvalid", "Unknown verb/code pair")
    ELSE IF ~re_compile_re_match(CODES_SCHEMA[p.code][p.verb], p.payload)
    THEN Raised("PacketPayloadInvalid", "Payload doesn't match")
    ELSE NotRaised

IDX_NAMES ==
    [c \in {"0002", "0418", "10A0", "1260", "1F41", "22C9", "2389", "2D49",
            "31D9", "31DA", "3220"} |->
        CASE c \in {"0002", "2389", "2D49"} -> "other_idx"
          [] c = "0418" -> "log_idx"
          [] c \in {"10A0", "1260", "1F41"} -> "dhw_idx"
          [] c = "22C9" -> "ufh_idx"
          [] c \in {"31D9", "31DA"} -> "hvac_id"
          [] c = "3220" -> "msg_id"]

IdxResult(raised, d) == [raised |-> raised, dict |-> d]

\* assert self._pkt._idx == "00"; return {}
AssertIdx00(p) ==
    IdxResult(IF Pkt_idx(p) = "00" THEN "" ELSE "AssertionError", EmptyDict)

\* A slip in _idx: the key of the code is added to the domain or zone key.
_idx_both(p, is_controller) ==
    IF p.code \in DOMAIN IDX_NAMES /\ Pkt_idx(p) \notin {"True", "False"}
    THEN IdxResult("", (IDX_NAMES[p.code] :> Pkt_idx(p)) @@ ("zone_idx" :> Pkt_idx(p)))
    ELSE IdxResult("", EmptyDict)

\* MessageBase._idx: is_controller is getattr(self.src, "_is_controller", True).
_idx(p, is_controller) ==
    IF p.code \in {"31D9", "31DA"}
    THEN IdxResult("", ("hvac_id" :> Pkt_idx(p)))
    ELSE IF Pkt_idx(p) \in {"True", "False"} \/ p.code \in CODE_IDX_COMPLEX
    THEN IdxResult("", EmptyDict)
    ELSE IF p.code \in {"3220"}
    THEN IdxResult("", EmptyDict)
    ELSE IF {p.src, p.dst} \cap {DEV_CTL, DEV_UFC, DEV_HCW, DEV_DTS, DEV_HGI,
                                 DEV_DT2, DEV_PRG} = {}
    THEN AssertIdx00(p)
    ELSE IF p.src = p.dst /\ p.src \notin {DEV_CTL, DEV_UFC, DEV_HCW, DEV_HGI, DEV_PRG}
    THEN AssertIdx00(p)
    ELSE IF p.src = p.dst /\ ~is_controller
    THEN AssertIdx00(p)
    ELSE IF p.code \in {"000A", "2309"} /\ p.src = DEV_UFC
    THEN IdxResult("", (IDX_NAMES["22C9"] :> Pkt_idx(p)))
    ELSE LET idx_name == IF StartsWithF(Pkt_idx(p)) THEN "domain_id" ELSE "zone_idx"
             index_name == IF p.code \in DOMAIN IDX_NAMES THEN IDX_NAMES[p.code]
                           ELSE idx_name
         IN  IdxResult("", (index_name :> Pkt_idx(p)))

\* The parsed fields of the model's payloads.
ParsedDict == ("temperature" :> "20.0")
ParsedList == << ("temperature" :> "20.0"), ("temperature" :> "20.0") >>

\* {**a, **b}
DictMerge(a, b) ==
    [k \in (DOMAIN a) \cup (DOMAIN b) |-> IF k \in DOMAIN b THEN b[k] ELSE a[k]]

Payload(kind, d, l) == [kind |-> kind, dict |-> d, list |-> l]

Validated(raised, text, payload) ==
    [raised |-> raised, text |-> text, payload |-> payload]

NoPayload == Payload("", EmptyDict, <<>>)

\* The try block of _validate: what it returns, or the exception it raises.
ValidateTry(p, is_controller) ==
    LET chk == _check_msg_payload(p)
    IN  IF chk.raised # "" THEN Validated(chk.raised, chk.text, NoPayload)
        ELSE IF ~_has_payload(p) /\ (p.verb = RQ /\ p.code \notin RQ_IDX_COMPLEX)
        THEN Validated("", "", Payload("dict", EmptyDict, <<>>))
        ELSE IF p.parsed \in ParseRaises
        THEN Validated(p.parsed, "", NoPayload)
        ELSE IF p.parsed = "list"
        THEN Validated("", "", Payload("list", EmptyDict, ParsedList))
        ELSE IF p.parsed = "dict"
        THEN LET i == _idx(p, is_controller)
             IN  IF i.raised # "" THEN Validated(i.raised, "What!!", NoPayload)
                 ELSE Validated("", "", Payload("dict", DictMerge(i.dict, ParsedDict), <<>>))
        ELSE Validated("TypeError", "Invalid payload type", NoPayload)

\* A slip in the except clauses: NotImplementedError is not caught.
Except_three(t) ==
    IF t.raised = "" THEN t
    ELSE IF IsInstance(t.raised, "PacketInvalid") THEN t
    ELSE IF IsInstance(t.raised, "AssertionError")
    THEN Validated("PacketInvalid", "Bad packet", NoPayload)
    ELSE IF \E cls \in {"AttributeError", "LookupError", "TypeError", "ValueError"} :
               IsInstance(t.raised, cls)
    THEN Validated("PacketInvalid", "", NoPayload)
    ELSE t

\* The except clauses of _validate, in their order.
Except(t) ==
    IF t.raised = "" THEN t
    ELSE IF IsInstance(t.raised, "PacketInvalid") THEN t
    ELSE IF IsInstance(t.raised, "AssertionError")
    THEN Validated("PacketInvalid", "Bad packet", NoPayload)
    ELSE IF \E cls \in {"AttributeError", "LookupError", "TypeError", "ValueError"} :
               IsInstance(t.raised, cls)
    THEN Validated("PacketInvalid", "", NoPayload)
    ELSE IF IsInstance(t.raised, "NotImplementedError")
    THEN Validated("PacketInvalid", "", NoPayload)
    ELSE t

\* MessageBase._validate
_validate(p, is_controller) == Except(ValidateTry(p, is_controller))

\* MessageBase.__init__: there is a message only when _validate returned.
NoMessage == [exists |-> FALSE, code |-> "", verb |-> "", _payload |-> NoPayload]

__init__(p, is_controller) ==
    LET v == _validate(p, is_controller)
    IN  [raised |-> v.raised, text |-> v.text, inner |-> ValidateTry(p, is_controller).raised,
         msg |-> IF v.raised # "" THEN NoMessage
                 ELSE [exists |-> TRUE, code |-> p.code, verb |-> p.verb,
                       _payload |-> v.payload]]

InitBuild ==
    /\ pkt = [code |-> "30C9", verb |-> I_, src |-> DEV_CTL, dst |-> DEV_CTL,
              payload |-> "0007D0", parsed |-> "dict"]
    /\ built = __init__(pkt, TRUE)

\* A packet arrives that differs from the one before it in one field, and
\* a message is made of it.
MessageInit ==
    /\ \E f \in DOMAIN PktFields :
         \E v \in PktFields[f] :
            /\ pkt' = [pkt EXCEPT ![f] = v]
            /\ \E is_controller \in BOOLEAN :
                  built' = __init__(pkt', is_controller)
    /\ UNCHANGED notBuild

NextBuild ==
    \/ MessageInit

(***************************************************************************)
(* Message._expired (ramses_tx/message.py).  Times are whole seconds; a    *)
(* fraction is kept as numerator and denominator, the denominator a        *)
(* positive lifespan.  pkt._lifespan is False (never), True, or a          *)
(* duration.                                                               *)
(***************************************************************************)
_TD_SECS_003 == 3
CANT_EXPIRE == -1

Never == [kind |-> "False", seconds |-> 0]
Unknown == [kind |-> "True", seconds |-> 0]
Seconds(n) == [kind |-> "td", seconds |-> n]

Lifespans == {Never, Unknown, Seconds(2), Seconds(4)}
RemainingSeconds == {1, 3}

Fraction(num, den) == [kind |-> "float", num |-> num, den |-> den]
NoFraction == [kind |-> "None", num |-> 0, den |-> 1]

\* a == b and a >= b, for fractions and whole numbers
FracEq(f, n) == f.num = n * f.den
FracGe(f, n) == f.num >= n * f.den

ExpMsg(code, verb, dtm, lifespan, remaining) ==
    [code |-> code, verb |-> verb, dtm |-> dtm, _lifespan |-> lifespan,
     remaining_seconds |-> remaining, _fraction_expired |-> NoFraction]

\* fraction_expired(lifespan)
fraction_expired(msg, t, lifespan) == Fraction(t - msg.dtm - _TD_SECS_003, lifespan)

\* self._fraction_expired >= self.HAS_EXPIRED
HasExpiredNow(f) == FracGe(f, HAS_EXPIRED)

\* A slip in _expired: the fraction of a message that has expired is
\* computed again.
_expired_recomputes(msg, t) ==
    LET f == msg._fraction_expired
        r(val, frac) == [val |-> val, frac |-> frac]
    IN  IF f.kind # "None" /\ FracEq(f, CANT_EXPIRE) THEN r("False", f)
        ELSE IF msg.code = "1F09" /\ msg.verb # RQ
        THEN LET g == fraction_expired(msg, t, msg.remaining_seconds)
             IN  r(IF HasExpiredNow(g) THEN "True" ELSE "False", g)
        ELSE IF msg._lifespan.kind = "False"
        THEN r("False", Fraction(CANT_EXPIRE, 1))
        ELSE IF msg._lifespan.kind = "True"
        THEN r("NotImplementedError", f)
        ELSE LET g == fraction_expired(msg, t, msg._lifespan.seconds)
             IN  r(IF HasExpiredNow(g) THEN "True" ELSE "False", g)

\* Message._expired at time t: the value returned (or the exception
\* raised) and the _fraction_expired it leaves.
_expired(msg, t) ==
    LET f == msg._fraction_expired
        r(val, frac) == [val |-> val, frac |-> frac]
    IN  IF f.kind # "None" /\ FracEq(f, CANT_EXPIRE) THEN r("False", f)
        ELSE IF f.kind # "None" /\ HasExpiredNow(f) THEN r("True", f)
        ELSE IF msg.code = "1F09" /\ msg.verb # RQ
        THEN LET g == fraction_expired(msg, t, msg.remaining_seconds)
             IN  r(IF HasExpiredNow(g) THEN "True" ELSE "False", g)
        ELSE IF msg._lifespan.kind = "False"
        THEN r("False", Fraction(CANT_EXPIRE, 1))
        ELSE IF msg._lifespan.kind = "True"
        THEN r("NotImplementedError", f)
        ELSE LET g == fraction_expired(msg, t, msg._lifespan.seconds)
             IN  r(IF HasExpiredNow(g) THEN "True" ELSE "False", g)

NoRead == [at |-> None, val |-> "", back |-> FALSE]

InitExp ==
    /\ now = 0
    /\ xmsg = ExpMsg("30C9", I_, 0, Seconds(4), 1)
    /\ xret = NoRead

\* A message arrives: its dtm is the time of arrival.
ExpRcvd ==
    /\ now <= MaxArrival
    /\ \E code \in {"1F09", "30C9"}, verb \in {I_, RQ}, lifespan \in Lifespans,
          remaining \in RemainingSeconds :
         xmsg' = ExpMsg(code, verb, now, lifespan, remaining)
    /\ xret' = NoRead
    /\ UNCHANGED now
    /\ UNCHANGED notExp

\* A second passes.
ExpTick ==
    /\ now < MaxNow
    /\ now' = now + 1
    /\ UNCHANGED <<xmsg, xret>>
    /\ UNCHANGED notExp

\* msg._expired is read.
ExpRead ==
    /\ xret.at # now
    /\ LET e == _expired(xmsg, now)
       IN  /\ xmsg' = [xmsg EXCEPT !._fraction_expired = e.frac]
           /\ xret' = [at |-> now, val |-> e.val, back |-> xret.back]
    /\ UNCHANGED now
    /\ UNCHANGED notExp

\* The clock of the host is set back by a second.
ExpClockBack ==
    /\ now > 0
    /\ now' = now - 1
    /\ xret' = [xret EXCEPT !.back = TRUE]
    /\ UNCHANGED xmsg
    /\ UNCHANGED notExp

NextExp ==
    \/ ExpRcvd
    \/ ExpTick
    \/ ExpRead
    \/ ExpClockBack

(***************************************************************************)
(* QosParams and SendParams (ramses_tx/typing.py): the objects made of the *)
(* arguments given.  Durations are in milliseconds; wait_for_reply is      *)
(* "None", "True" or "False".                                              *)
(***************************************************************************)
ParamArgs ==
    [max_retries |-> {None, 0, 1, 3},
     timeout |-> {None, 0, 5000, 30000},
     wait_for_reply |-> {"None", "True", "False"},
     gap_duration |-> {None, 0, 20, 200},
     num_repeats |-> {None, 0, 1, 3},
     priority |-> {None, SendPriority("_MAX"), SendPriority("HIGH"),
                   SendPriority("DEFAULT"), SendPriority("LOW"), SendPriority("_MIN")}]

\* QosParams(**args) and SendParams(**args)
Made(args) ==
    [args |-> args,
     qos |-> QosParams(args.max_retries, args.timeout, args.wait_for_reply),
     send |-> SendParams(args.gap_duration, args.num_repeats, args.priority)]

\* The defaults of the two __init__.
InitPar ==
    params = Made([max_retries |-> DEFAULT_MAX_RETRIES, timeout |-> DEFAULT_TIMEOUT,
                   wait_for_reply |-> "None", gap_duration |-> _DEFAULT_TX_DELAY,
                   num_repeats |-> _DEFAULT_TX_COUNT,
                   priority |-> SendPriority("DEFAULT")])

\* The two objects are made of arguments that differ in one from those of
\* the objects before.
MakeParams ==
    /\ \E f \in DOMAIN ParamArgs :
         \E v \in ParamArgs[f] :
            /\ params.args[f] # v
            /\ params' = Made([params.args EXCEPT ![f] = v])
    /\ UNCHANGED notPar

NextPar ==
    \/ MakeParams

(***************************************************************************)
(* The two-way maps of slugs (ramses_tx/const.py): an AttrDict is made of  *)
(* a main table, slug -> {key: name}, where a table with _root_slug is an  *)
(* alias of that slug; it is a dict of key -> name.  A key that is None is *)
(* "" here, as is a missing _root_slug.                                    *)
(***************************************************************************)
Row(slug, key, name, aka) == [slug |-> slug, key |-> key, name |-> name, aka |-> aka]

DEV_ROLE_MAP ==
    << Row("ACT", "00", "zone_actuator", ""), Row("SEN", "04", "zone_sensor", ""),
       Row("RAD", "08", "rad_actuator", ""), Row("UFH", "09", "ufh_actuator", ""),
       Row("VAL", "0A", "val_actuator", ""), Row("MIX", "0B", "mix_actuator", ""),
       Row("OUT", "0C", "out_sensor", ""), Row("DHW", "0D", "dhw_sensor", ""),
       Row("HTG", "0E", "hotwater_valve", ""), Row("HT1", "", "heating_valve", ""),
       Row("APP", "0F", "appliance_control", ""), Row("RFG", "10", "remote_gateway", ""),
       Row("ELE", "11", "ele_actuator", "") >>

DEV_TYPE_MAP ==
    << Row("DEV", "", "generic_device", ""), Row("HEA", "", "heat_device", ""),
       Row("HVC", "", "hvac_device", ""), Row("HGI", "18", "gateway_interface", ""),
       Row("TR0", "00", "radiator_valve", "TRV"), Row("CTL", "01", "controller", ""),
       Row("UFC", "02", "ufh_controller", ""), Row("HCW", "03", "analog_thermostat", ""),
       Row("THM", "", "thermostat", ""), Row("TRV", "04", "radiator_valve", ""),
       Row("DHW", "07", "dhw_sensor", ""), Row("OTB", "10", "opentherm_bridge", ""),
       Row("DTS", "12", "digital_thermostat", ""), Row("BDR", "13", "electrical_relay", ""),
       Row("OUT", "17", "outdoor_sensor", ""),
       Row("DT2", "22", "digital_thermostat", "DTS"), Row("PRG", "23", "programmer", ""),
       Row("RFG", "30", "rf_gateway", ""), Row("RND", "34", "round_thermostat", ""),
       Row("JIM", "08", "jasper_interface", ""), Row("JST", "31", "jasper_thermostat", ""),
       Row("CO2", "", "co2_sensor", ""), Row("DIS", "", "switch_display", ""),
       Row("FAN", "", "ventilator", ""), Row("HUM", "", "rh_sensor", ""),
       Row("PIR", "", "presence_sensor", ""), Row("RFS", "", "hvac_gateway", ""),
       Row("REM", "", "switch", ""), Row("SW2", "", "switch_variant", "") >>

ZON_ROLE_MAP ==
    << Row("ACT", "00", "heating_zone", ""), Row("SEN", "04", "heating_zone", ""),
       Row("RAD", "08", "radiator_valve", ""), Row("UFH", "09", "underfloor_heating", ""),
       Row("VAL", "0A", "zone_valve", ""), Row("MIX", "0B", "mixing_valve", ""),
       Row("DHW", "0D", "stored_hotwater", ""), Row("ELE", "11", "electric_heat", "") >>

ZON_MODE_MAP ==
    << Row("FOLLOW", "00", "follow_schedule", ""),
       Row("ADVANCED", "01", "advanced_override", ""),
       Row("PERMANENT", "02", "permanent_override", ""),
       Row("COUNTDOWN", "03", "countdown_override", ""),
       Row("TEMPORARY", "04", "temporary_override", "") >>

SYS_MODE_MAP ==
    << Row("au_00", "00", "auto", ""), Row("ho_01", "01", "heat_off", ""),
       Row("eb_02", "02", "eco_boost", ""), Row("aw_03", "03", "away", ""),
       Row("do_04", "04", "day_off", ""), Row("de_05", "05", "day_off_eco", ""),
       Row("ar_06", "06", "auto_with_reset", ""), Row("cu_07", "07", "custom", "") >>

\* The main table of each map.
MainTables ==
    [DEV_ROLE_MAP |-> DEV_ROLE_MAP, DEV_TYPE_MAP |-> DEV_TYPE_MAP,
     ZON_ROLE_MAP |-> ZON_ROLE_MAP, ZON_MODE_MAP |-> ZON_MODE_MAP,
     SYS_MODE_MAP |-> SYS_MODE_MAP]

\* The last of the rows of a table that P holds for: a dict comprehension
\* keeps the last value of a key.
LastRow(main, S) == main[CHOOSE i \in S : \A j \in S : j <= i]

\* AttrDict.__init__: self._forward, key -> name.
_forward(main) ==
    LET rows == {i \in 1..Len(main) : main[i].key # ""}
    IN  [k \in {main[i].key : i \in rows} |->
            LastRow(main, {i \in rows : main[i].key = k}).name]

\* AttrDict.__init__: self._reverse, name -> key, of the tables that have
\* no _root_slug.
_reverse(main) ==
    LET rows == {i \in 1..Len(main) : main[i].key # "" /\ main[i].aka = ""}
    IN  [v \in {main[i].name : i \in rows} |->
            LastRow(main, {i \in rows : main[i].name = v}).key]

\* AttrDict.__init__: self._slug_lookup, of a key (the _root_slug, or else
\* the slug) and of a name (the slug of a table that has no _root_slug).
_slug_lookup(main) ==
    LET keyed == {i \in 1..Len(main) : main[i].key # ""}
        named == {i \in 1..Len(main) : main[i].aka = ""}
    IN  [k \in {main[i].key : i \in keyed} \cup {main[i].name : i \in named} |->
            IF \E i \in named : main[i].name = k
            THEN LastRow(main, {i \in named : main[i].name = k}).slug
            ELSE LET row == LastRow(main, {i \in keyed : main[i].key = k})
                 IN  IF row.aka # "" THEN row.aka ELSE row.slug]

\* AttrDict.__getitem__(key) of the map with the items d: the name of a
\* slug, or the key of a name, or the item of the dict.
__getitem__(main, d, key) ==
    IF \E i \in 1..Len(main) : main[i].slug = key
    THEN LastRow(main, {i \in 1..Len(main) : main[i].slug = key}).name
    ELSE IF key \in DOMAIN _reverse(main) THEN _reverse(main)[key]
    ELSE IF key \in DOMAIN d THEN d[key]
    ELSE "KeyError"

\* AttrDict.slug(key)
MapSlug(main, key) ==
    IF key \in DOMAIN _slug_lookup(main) THEN _slug_lookup(main)[key] ELSE "KeyError"

\* The methods AttrDict replaces by __readonly, and the other operation of
\* a dict that changes it: d |= other.
ReadOnlyOps ==
    {"__delitem__", "__setitem__", "clear", "pop", "popitem", "setdefault", "update"}

MutatingOps == ReadOnlyOps \cup {"__ior__"}

\* The keys and the value the operations are called with.
OpKeys == {"00", "FF"}
OpValue == "changed"

\* An operation on the map with the items d: what it raises, and the items
\* afterwards.  __ior__ is dict's own, and does not call update().
MapOp(d, op, k) ==
    IF op \in ReadOnlyOps
    THEN [raised |-> "TypeError", dict |-> d]
    ELSE [raised |-> "",
          dict |-> [x \in DOMAIN d \cup {k} |-> IF x = k THEN OpValue ELSE d[x]]]

NoLookup ==
    [kind |-> "", map |-> "", key |-> "", name |-> "", back |-> "", slug |-> "",
     op |-> "", raised |-> "", same |-> TRUE]

\* super().__init__(self._forward)
InitMap ==
    /\ maps = [m \in DOMAIN MainTables |-> _forward(MainTables[m])]
    /\ mret = NoLookup

\* map[key], then map[that name], and map.slug(key), for a key of the map.
MapLookup ==
    /\ \E m \in DOMAIN MainTables :
         \E k \in DOMAIN _forward(MainTables[m]) :
            LET main == MainTables[m]
                name == __getitem__(main, maps[m], k)
            IN  mret' = [NoLookup EXCEPT !.kind = "lookup", !.map = m, !.key = k,
                             !.name = name,
                             !.back = __getitem__(main, maps[m], name),
                             !.slug = MapSlug(main, k),
                             !.same = maps[m] = _forward(main)]
    /\ UNCHANGED maps
    /\ UNCHANGED notMap

\* The maps whose items are not those they were made with.
ChangedMaps == {m \in DOMAIN MainTables : maps[m] # _forward(MainTables[m])}

\* An operation that changes a dict is called on a map.
MapMutate ==
    /\ \E m \in DOMAIN MainTables, op \in MutatingOps, k \in OpKeys :
         LET done == MapOp(maps[m], op, k)
         IN  /\ op \notin ReadOnlyOps => Cardinality(ChangedMaps) < MaxChanged
             /\ maps' = [maps EXCEPT ![m] = done.dict]
             /\ mret' = [NoLookup EXCEPT !.kind = "op", !.map = m, !.key = k,
                             !.op = op, !.raised = done.raised,
                             !.same = done.dict = maps[m]]
    /\ UNCHANGED notMap

NextMap ==
    \/ MapLookup
    \/ MapMutate

(***************************************************************************)
(* The validation of the classes of a message's devices against its verb   *)
(* and code (dispatcher._check_src_slug, _check_dst_slug).  STRICT_MODE is *)
(* a constant of the module, False as it is; the checks are modelled for   *)
(* either value.  DEV_MODE is False: what is logged is logged as info.     *)
(* The slug of a dst that is no device is "".                              *)
(***************************************************************************)
\* A sample of ramses.CODES_BY_DEV_SLUG: slug -> code -> verbs.
CODES_BY_DEV_SLUG ==
    [CTL |-> [x \in {"30C9", "0001", "10E0"} |->
                 CASE x = "30C9" -> {I_, RP}
                   [] x = "0001" -> {W_}
                   [] OTHER -> {I_, RP}],
     BDR |-> [x \in {"3EF0", "3EF1", "0001", "10E0"} |->
                 CASE x = "3EF0" -> {I_}
                   [] x = "3EF1" -> {RP}
                   [] x = "0001" -> {RP}
                   [] OTHER -> {I_, RP}]]

\* The slugs that are not checked: DevType.HGI, DEV, HEA, HVC.
UncheckedSlugs == {"HGI", "DEV", "HEA", "HVC"}

\* The slugs, codes and verbs of the messages checked; JST has no table.
SlugsOfSrc == {"CTL", "BDR", "JST", "HGI", "DEV"}
SlugsOfDst == SlugsOfSrc \cup {"", "is src"}
SlugCodes == {"30C9", "3EF0", "3EF1", "0001", "10E0", "22F3"}
SlugVerbs == {I_, RQ, RP, W_}

SlugOk == [raised |-> "", log |-> ""]
SlugLog(level) == [raised |-> "", log |-> level]

\* if STRICT_MODE: raise exc.PacketInvalid(err_msg); else log, and return
RaiseOrLog(strict) ==
    IF strict THEN [raised |-> "PacketInvalid", log |-> ""] ELSE SlugLog("info")

\* msg.dst is msg.src
DstIsSrc(msg) == msg.dst = "is src"

\* getattr(msg.dst, "_SLUG", None)
DstSlug(msg) == IF DstIsSrc(msg) THEN msg.src ELSE msg.dst

\* _check_src_slug(msg)
_check_src_slug(strict, msg) ==
    LET slug == msg.src
    IN  IF slug \in UncheckedSlugs THEN SlugOk
        ELSE IF slug \notin DOMAIN CODES_BY_DEV_SLUG
        THEN IF msg.code # "10E0" /\ msg.code \notin CODES_OF_HVAC_DOMAIN_ONLY
             THEN RaiseOrLog(strict)
             ELSE SlugLog("warning")
        ELSE IF msg.code \notin DOMAIN CODES_BY_DEV_SLUG[slug]
        THEN RaiseOrLog(strict)
        ELSE IF msg.verb \notin CODES_BY_DEV_SLUG[slug][msg.code]
        THEN RaiseOrLog(strict)
        ELSE SlugOk

\* {RQ: RP, RP: RQ, W_: I_}[msg.verb]
ReplyVerb(verb) == CASE verb = RQ -> RP [] verb = RP -> RQ [] verb = W_ -> I_

\* A slip: a code that is not in the table of the destination is rejected
\* as it is for the source.
_check_dst_slug_code(strict, msg) ==
    LET slug == DstSlug(msg)
    IN  IF slug \in UncheckedSlugs \cup {""} THEN SlugOk
        ELSE IF slug \notin DOMAIN CODES_BY_DEV_SLUG
        THEN IF msg.code \notin CODES_OF_HVAC_DOMAIN_ONLY
             THEN RaiseOrLog(strict)
             ELSE SlugLog("warning")
        ELSE IF msg.verb = I_ THEN SlugOk
        ELSE IF slug = "CTL" /\ msg.verb = RQ /\ msg.code = "3EF1" THEN SlugOk
        ELSE IF msg.code \notin DOMAIN CODES_BY_DEV_SLUG[slug]
        THEN RaiseOrLog(strict)
        ELSE IF msg.verb = W_ /\ msg.code = "0001" THEN SlugOk
        ELSE IF slug = "BDR" /\ msg.verb = RQ /\ msg.code = "3EF0" THEN SlugOk
        ELSE IF ReplyVerb(msg.verb) \notin CODES_BY_DEV_SLUG[slug][msg.code]
        THEN RaiseOrLog(strict)
        ELSE SlugOk

\* _check_dst_slug(msg): the branch of a code that is not in the table
\* raises nothing (`if False and ...`).
_check_dst_slug(strict, msg) ==
    LET slug == DstSlug(msg)
    IN  IF slug \in UncheckedSlugs \cup {""} THEN SlugOk
        ELSE IF slug \notin DOMAIN CODES_BY_DEV_SLUG
        THEN IF msg.code \notin CODES_OF_HVAC_DOMAIN_ONLY
             THEN RaiseOrLog(strict)
             ELSE SlugLog("warning")
        ELSE IF msg.verb = I_ THEN SlugOk
        ELSE IF slug = "CTL" /\ msg.verb = RQ /\ msg.code = "3EF1" THEN SlugOk
        ELSE IF msg.code \notin DOMAIN CODES_BY_DEV_SLUG[slug]
        THEN IF msg.src = "HGI" \/ msg.verb = RP THEN SlugOk ELSE SlugLog("info")
        ELSE IF msg.verb = W_ /\ msg.code = "0001" THEN SlugOk
        ELSE IF slug = "BDR" /\ msg.verb = RQ /\ msg.code = "3EF0" THEN SlugOk
        ELSE IF ReplyVerb(msg.verb) \notin CODES_BY_DEV_SLUG[slug][msg.code]
        THEN RaiseOrLog(strict)
        ELSE SlugOk

\* process_msg, from the check of the source to the call_soon of its
\* handler, with all processing enabled: what is raised, what is logged,
\* and whether the message is routed.
CheckSlugs(strict, msg) ==
    LET s == _check_src_slug(strict, msg)
        d == IF ~DstIsSrc(msg) \/ msg.verb # I_
             THEN _check_dst_slug(strict, msg) ELSE SlugOk
        raised == IF s.raised # "" THEN s.raised ELSE d.raised
    IN  [raised |-> raised,
         logs |-> ({s.log} \cup (IF s.raised # "" THEN {} ELSE {d.log})) \ {""},
         routed |-> raised = ""]

Checked(strict, msg) ==
    [strict |-> strict, msg |-> msg, out |-> CheckSlugs(strict, msg)]

InitSlug ==
    checked = Checked(STRICT_MODE,
                  [verb |-> I_, code |-> "30C9", src |-> "CTL", dst |-> "is src"])

\* A message is processed that differs in one field from the one before.
SlugMsg ==
    /\ \E f \in {"verb", "code", "src", "dst"} :
         \E v \in (CASE f = "verb" -> SlugVerbs [] f = "code" -> SlugCodes
                     [] f = "src" -> SlugsOfSrc [] OTHER -> SlugsOfDst) :
            /\ checked.msg[f] # v
            /\ checked' = Checked(checked.strict, [checked.msg EXCEPT ![f] = v])
    /\ UNCHANGED notSlug

\* The module is built with the other value of STRICT_MODE.
SlugMode ==
    /\ checked' = Checked(~checked.strict, checked.msg)
    /\ UNCHANGED notSlug

NextSlug ==
    \/ SlugMsg
    \/ SlugMode

(***************************************************************************)
(* The specifications: one per subsystem, every other subsystem at rest.   *)
(* The fair ones add what the event loop guarantees: the writer runs, a    *)
(* frame to send is sent, and a timer that is due fires.                   *)
(***************************************************************************)
Init == InitCache /\ InitQos /\ InitBind /\ InitSched /\ InitHgi /\ InitDisp /\ InitFrag /\ InitEq /\ InitEnt /\ InitBuild /\ InitExp /\ InitPar /\ InitMap /\ InitSlug

SpecCache == Init /\ [][NextCache]_vars

SpecQos == Init /\ [][NextQos]_vars

SpecQosFair ==
    /\ SpecQos
    /\ WF_vars(SendNext)
    /\ WF_vars(\E c \in CmdIds : EchoTimeout(c))
    /\ WF_vars(\E c \in CmdIds : ReplyTimeout(c))

SpecBind == Init /\ [][NextBind]_vars

SpecBindFair ==
    /\ SpecBind
    /\ WF_vars(SendOffer)
    /\ WF_vars(SendAccept)
    /\ WF_vars(_sent_confirm)
    /\ WF_vars(SupTimeout)
    /\ WF_vars(RespTimeout)

SpecSched == Init /\ [][NextSched]_vars

SpecHgi == Init /\ [][NextHgi]_vars

SpecDisp == Init /\ [][NextDisp]_vars

SpecFrag == Init /\ [][NextFrag]_vars

SpecEq == Init /\ [][NextEq]_vars

SpecEnt == Init /\ [][NextEnt]_vars

SpecBuild == Init /\ [][NextBuild]_vars

SpecExp == Init /\ [][NextExp]_vars

SpecPar == Init /\ [][NextPar]_vars

SpecMap == Init /\ [][NextMap]_vars

SpecSlug == Init /\ [][NextSlug]_vars

(***************************************************************************)
(* Claims about the entity cache.                                          *)
(***************************************************************************)
Last(s) == s[Len(s)]

Unexpired(s) == SelectSeq(s, LAMBDA i : fraction[i] < HAS_EXPIRED)

HasExpired(msg) == fraction[msg.id] >= HAS_EXPIRED

\* C1 as stated: in every entity, _msgs[code] is the most recently handled I
\* or RP message for that code that has not expired, and is absent only when
\* no unexpired I/RP message for that code has been handled.
C1_LatestIsLastUnexpired ==
    \A e \in EntityIds, c \in Codes :
        LET live == Unexpired(handled[e][c])
        IN  IF live = <<>>
            THEN c \notin DOMAIN ent[e]._msgs
            ELSE /\ c \in DOMAIN ent[e]._msgs
                 /\ ent[e]._msgs[c].id = Last(live)

\* C1 as amended: in every entity, _msgs[code], when present, is the most
\* recently handled I or RP message for that code; it is absent only when no
\* I/RP message for that code was handled, or _send_cmd(code) or expired()
\* has removed it since the last one was.
C1_LatestIsLastHandled ==
    \A e \in EntityIds, c \in Codes :
        /\ c \in DOMAIN ent[e]._msgs =>
              /\ handled[e][c] # <<>>
              /\ ent[e]._msgs[c].id = Last(handled[e][c])
              /\ ent[e]._msgs[c].code = c
              /\ ent[e]._msgs[c].verb \in {I_, RP}
        /\ c \notin DOMAIN ent[e]._msgs =>
              handled[e][c] = <<>> \/ removed[e][c]

\* The device has handled two I/RP messages for one code, the first has
\* expired, and the second is _msgs[code].
C1_Witness ==
    \E c \in Codes :
        /\ Len(handled["dev"][c]) = 2
        /\ fraction[handled["dev"][c][1]] >= HAS_EXPIRED
        /\ c \in DOMAIN ent["dev"]._msgs
        /\ ent["dev"]._msgs[c].id = handled["dev"][c][2]

\* C2: every message in _msgs is in _msgz under its own code, verb and
\* context.
C2_LatestInMsgz ==
    \A e \in EntityIds :
        \A c \in DOMAIN ent[e]._msgs :
            LET m == ent[e]._msgs[c]
                z == ent[e]._msgz
            IN  /\ m.code \in DOMAIN z
                /\ m.verb \in DOMAIN z[m.code]
                /\ m.ctx \in DOMAIN z[m.code][m.verb]
                /\ z[m.code][m.verb][m.ctx] = m

\* expired() has removed a message from the device's stores, which still
\* hold another message in _msgs.
C2_Witness ==
    /\ evicted # {}
    /\ \E c \in DOMAIN ent["dev"]._msgs : ent["dev"]._msgs[c].id \notin evicted
    /\ \A m \in _msg_db(ent["dev"]) : m.id \notin evicted

\* C3: once expired() has found a message expired, no store of any entity
\* holds it (in _msgz or in _msgs).
C3_ExpiredRemovedEverywhere ==
    \A e \in EntityIds :
        /\ \A m \in _msg_db(ent[e]) : m.id \notin evicted
        /\ \A c \in DOMAIN ent[e]._msgs : ent[e]._msgs[c].id \notin evicted

\* The states expired(x), then _handle_msg(m) by entity e, and
\* _handle_msg(m) alone lead to.
ExpiredThenHandled(x, e, m) ==
    [expired(ent, fraction, x) EXCEPT ![e] = _handle_msg(@, m)]

OnlyHandled(e, m) == [ent EXCEPT ![e] = _handle_msg(@, m)]

NewMsg(in) == MsgOf(nextId, in[1], in[2], in[3], in[4])

\* C4 as stated: expiring an expired message and then handling any new
\* message leaves the stores as handling only the new message does.
C4_ExpiryPurity ==
    \A x \in Stored : HasExpired(x) =>
        \A in \in Inputs :
            ExpiredThenHandled(x, "dev", NewMsg(in)) = OnlyHandled("dev", NewMsg(in))

\* C4 as amended: expiring an expired message x and then handling, in an
\* entity, a new message with x's code, verb and context leaves that
\* entity's stores as handling only the new message does.
C4_ExpiryPuritySameKey ==
    \A x \in Stored : HasExpired(x) =>
        \A in \in Inputs : (in[1] = x.code /\ in[2] = x.verb /\ in[3] = x.ctx) =>
            \A e \in Range(entities(NewMsg(in))) :
                ExpiredThenHandled(x, e, NewMsg(in))[e] = OnlyHandled(e, NewMsg(in))[e]

\* The device holds an expired RQ or W message and an I or RP message for
\* the same code in _msgs.
C4_Witness ==
    \E x \in _msg_db(ent["dev"]) :
        /\ HasExpired(x)
        /\ x.verb \in {RQ, W_}
        /\ x.code \in DOMAIN ent["dev"]._msgs

(***************************************************************************)
(* Claims about the protocol / QoS send path.                              *)
(***************************************************************************)
\* C5: at most one command is in flight, retries included, and the frame
\* written last is the in-flight command's: no other command's frame is
\* written while it awaits its echo or reply.
C5_OneInFlight ==
    /\ Cardinality(InFlight) <= 1
    /\ \A c \in InFlight : lastTx = c

\* A command is being retried while two other calls wait in the queue.
C5_Witness ==
    /\ \E c \in InFlight : ntx[c] >= 2
    /\ Len(queue) >= 2

\* The priority value a call asks for: the default when it gives none.
ArgPriority(c) ==
    IF cmds[c].args.priority = None
    THEN SendPriority("DEFAULT")
    ELSE cmds[c].args.priority

\* C6: a queued command is taken for transmission only when no command is
\* in flight, and it is the one with the numerically lowest priority value,
\* the earliest queued among those of that priority; a command in flight
\* leaves that state only by being retired.
C6_PriorityOrder ==
    [][\A c \in CmdIds :
         /\ (pc[c] = "queued" /\ pc'[c] = "sent") =>
               /\ InFlight = {}
               /\ \A d \in CmdIds \ {c} : pc[d] = "queued" =>
                     \/ ArgPriority(c) < ArgPriority(d)
                     \/ ArgPriority(c) = ArgPriority(d) /\ c < d
         /\ (c \in InFlight /\ pc'[c] \notin {"sent", "echo_seen"}) =>
               pc'[c] = "done"]_vars

\* A command in flight has overtaken a call of lower priority that was made
\* before it and still waits.
C6_Witness ==
    \E c \in InFlight, d \in CmdIds :
        /\ pc[d] = "queued"
        /\ d < c
        /\ ArgPriority(c) < ArgPriority(d)

\* The retransmissions a call asks for: the default when it gives none.
ArgRetries(c) ==
    IF cmds[c].args.max_retries = None
    THEN DEFAULT_MAX_RETRIES
    ELSE cmds[c].args.max_retries

ResultOk(c) ==
    /\ (pc[c] = "done") <=> (result[c] # NoResult)
    /\ result[c] = "reply" => cmds[c].wait_for_reply /\ ntx[c] >= 1
    /\ result[c] = "echo" => ~cmds[c].wait_for_reply /\ ntx[c] >= 1
    /\ result[c] = "ProtocolSendFailed" =>
          c \in timedOut \/ ntx[c] = ArgRetries(c) + 1
    /\ ntx[c] <= ArgRetries(c) + 1

\* C7: every send_cmd call completes (a completed call stays completed, so
\* from some point on no call is pending); its result is the reply when a
\* reply is awaited, the echo when none is, and else ProtocolSendFailed,
\* after the timeout or after max_retries retransmissions (none with
\* max_retries=0).
C7_SendCompletes ==
    /\ <>[](\A c \in CmdIds : pc[c] \in {"new", "done"})
    /\ [][\A c \in CmdIds : pc[c] = "done" => pc'[c] = "done"]_vars
    /\ [](\A c \in CmdIds : ResultOk(c))

\* A call with max_retries=0 has failed after its single transmission, with
\* no timeout, and another call got its reply after a retransmission.
C7_Witness ==
    /\ \E c \in CmdIds :
         /\ cmds[c].args.max_retries = 0
         /\ result[c] = "ProtocolSendFailed"
         /\ ntx[c] = 1
         /\ c \notin timedOut
    /\ \E c \in CmdIds : result[c] = "reply" /\ ntx[c] >= 2

(***************************************************************************)
(* Claims about the binding handshake.                                     *)
(***************************************************************************)
Matching == resp.codes \cap OfferCodes # {}

Started == sup.state # "Idle" /\ resp.state # "Idle" /\ Matching

BothTerminal == sup.state \in Terminal /\ resp.state \in Terminal

Agreed ==
    \/ sup.state = "Bound" /\ resp.state = "Bound"
    \/ sup.state = "Unbound" /\ resp.state = "Unbound"

SupOrder ==
    {<<"Idle", "Offering">>, <<"Offering", "Offered">>, <<"Offered", "Confirming">>,
     <<"Confirming", "Confirmed">>, <<"Confirmed", "Bound">>}

RespOrder ==
    {<<"Idle", "Listening">>, <<"Listening", "Accepting">>, <<"Accepting", "Accepted">>,
     <<"Accepted", "BoundAccepted">>, <<"BoundAccepted", "Bound">>}

HandshakeState ==
    /\ Offer \in sentFrames => sup.state \notin {"Idle", "Offering"}
    /\ sup.state \in {"Offered", "Confirming", "Confirmed", "Bound"} =>
          Offer \in sentFrames
    /\ Confirm(1) \in sentFrames => sup.state \in {"Confirmed", "Bound", "Unbound"}
    /\ resp.state \in {"Accepting", "Accepted", "BoundAccepted", "Bound"} =>
          /\ Offer \in sentFrames
          /\ Matching
          /\ resp.tender = "supplicant"
    /\ Accept \in sentFrames =>
          resp.state \in {"Accepted", "BoundAccepted", "Bound", "Unbound"}
    /\ sup.state \in {"Confirming", "Confirmed", "Bound"} =>
          /\ Accept \in sentFrames
          /\ sup.accepter = "respondent"
    /\ sup.state = "Confirming" => sup.sent = 0
    /\ sup.state = "Confirmed" => sup.sent \in 1..(CONFIRMS_TO_BIND - 1)
    /\ sup.state = "Bound" => sup.sent = CONFIRMS_TO_BIND
    /\ resp.state = "Accepted" => resp.rcvd = 0
    /\ resp.state = "BoundAccepted" =>
          resp.rcvd \in 1..(CONFIRMS_TO_BIND - 1) /\ resp.rcvd <= sup.sent
    /\ resp.state = "Bound" =>
          resp.rcvd = CONFIRMS_TO_BIND /\ sup.sent = CONFIRMS_TO_BIND

\* C9: the supplicant is Offered once the offer is sent; the respondent is
\* Accepted only after an offer with a matching code, the supplicant
\* Confirmed only after the accept and its first confirm, the respondent
\* BoundAccepted from the first confirm, and either Bound only after the
\* third; each side moves one state along its sequence at a time, or to
\* Unbound.
C9_HandshakeOrder ==
    /\ []HandshakeState
    /\ [][/\ sup'.state # sup.state =>
               <<sup.state, sup'.state>> \in SupOrder \/ sup'.state = "Unbound"
          /\ resp'.state # resp.state =>
               <<resp.state, resp'.state>> \in RespOrder \/ resp'.state = "Unbound"]_vars

\* Both sides are Bound, three confirms sent and received.
C9_Witness ==
    /\ sup.state = "Bound"
    /\ resp.state = "Bound"
    /\ resp.rcvd = CONFIRMS_TO_BIND

(***************************************************************************)
(* Claims about the schedule read.                                         *)
(***************************************************************************)
\* The packets of a read of a schedule of n fragments.
Expected(n) ==
    <<Pkt(RQ, "0006", 0, 0), Pkt(RP, "0006", 0, 0)>>
    \o [k \in 1..(2 * n) |->
          IF k % 2 = 1
          THEN Pkt(RQ, "0404", (k + 1) \div 2, IF k = 1 THEN 0 ELSE n)
          ELSE Pkt(RP, "0404", k \div 2, n)]

IsPrefix(s, t) == Len(s) <= Len(t) /\ \A i \in 1..Len(s) : s[i] = t[i]

\* The total_frags the first RP/0404 of the read carried.
FlowTotal == IF Len(flow) >= 4 THEN flow[4].total_frags ELSE 1

\* C10: the packets of a read are, in this order, RQ/0006, RP/0006, and for
\* each fragment from 1 to total_frags RQ/0404 then RP/0404; no request is
\* sent before the reply to the one before it, none for a fragment beyond
\* total_frags, and a read that fetches fragments ends with the reply for
\* fragment total_frags.
C10_ReadOrder ==
    /\ IsPrefix(flow, Expected(FlowTotal))
    /\ \A i \in 1..Len(flow) :
          (flow[i].code = "0404" /\ flow[i].verb = RQ) =>
              /\ flow[i].frag_number \in 1..FlowTotal
              /\ flow[i - 1].verb = RP
              /\ flow[i].frag_number > 1 =>
                    flow[i - 1] = Pkt(RP, "0404", flow[i].frag_number - 1, FlowTotal)
    /\ (sched.state = "done" /\ Len(flow) > 2) =>
          /\ flow = Expected(FlowTotal)
          /\ flow[Len(flow)].frag_number = flow[Len(flow)].total_frags
    /\ (sched.state = "rq_0404") =>
          flow[Len(flow)].verb = RQ /\ flow[Len(flow)].frag_number = sched.frag_number

\* A read of a schedule of MaxFrags fragments has ended.
C10_Witness ==
    /\ sched.state = "done"
    /\ Len(flow) = 2 + 2 * MaxFrags
    /\ flow[Len(flow)] = Pkt(RP, "0404", MaxFrags, MaxFrags)

(***************************************************************************)
(* The schedule cache and disable_sending.                                 *)
(***************************************************************************)
RQs(f) == {i \in 1..Len(f) : f[i].verb = RQ}

Has0404(f) == \E i \in 1..Len(f) : f[i].code = "0404"

\* The call steps, told by what they leave in the reader.
Called(op, force_io) ==
    /\ ~Reading
    /\ sched'.op = op
    /\ sched'.force_io = force_io
    /\ \/ op = "get_schedule" /\ get_schedule
       \/ op = "_schedule_version" /\ _schedule_version

C12_DisableSending ==
    [][ disable_sending =>
          /\ Cardinality(RQs(flow')) <= Cardinality(RQs(flow))
          /\ \A op \in {"get_schedule", "_schedule_version"} :
               /\ Called(op, TRUE)
                  => /\ sched'.out = "RuntimeError"
                     /\ flow' = <<>>
                     /\ sched'.schedule = sched.schedule
                     /\ sched'.version = sched.version
                     /\ sched'.seen = sched.seen
          /\ (Called("get_schedule", FALSE) /\ sched.schedule # NoSchedule
                 /\ sched.version = sched.seen)
             => /\ sched'.out = "schedule"
                /\ sched'.ret = sched.schedule
                /\ sched'.schedule = sched.schedule
                /\ flow' = <<>>
          /\ (Called("get_schedule", FALSE) /\ sched.schedule = NoSchedule)
             => sched'.out = "RuntimeError" /\ flow' = <<>>
          /\ (Called("_schedule_version", FALSE) /\ sched.seen # 0)
             => /\ sched'.out = "version"
                /\ sched'.ret_version = sched.seen
                /\ sched'.seen = sched.seen
                /\ flow' = <<>>
      ]_vars

\* With sending disabled and a schedule in the cache, a forced call has
\* raised.
C12_Witness ==
    /\ disable_sending
    /\ sched.schedule # NoSchedule
    /\ sched.out = "RuntimeError"
    /\ sched.force_io
    /\ flow = <<>>

\* With sending disabled, a read was served from the cache.
C12_WitnessCache ==
    /\ disable_sending
    /\ sched.op = "get_schedule"
    /\ sched.out = "schedule"
    /\ ~sched.force_io
    /\ sched.ret = sched.schedule
    /\ sched.ret # NoSchedule

(***************************************************************************)
(* The gateway's address substitution.                                     *)
(***************************************************************************)
SameButAddr0(f, g) ==
    /\ f.verb = g.verb
    /\ f.addr1 = g.addr1
    /\ f.addr2 = g.addr2
    /\ f.code = g.code
    /\ f.payload = g.payload

\* C13: a packet returned for a command whose addr0 is the generic id
\* 18:000730 is the command with addr0 replaced by the gateway's id and
\* nothing else changed; for any other addr0, the packet returned by an
\* evofw3 gateway is the command unchanged, and an HGI80 gateway returns
\* no packet: the call fails with ProtocolSendFailed.
C13_HgiSubstitution ==
    /\ tx.outcome = "pkt" =>
         IF tx.cmd.addr0 = HGI_ID_
         THEN /\ tx.pkt.addr0 = gwy.hgi_id
              /\ SameButAddr0(tx.pkt, tx.cmd)
         ELSE /\ gwy.is_evofw3
              /\ tx.pkt = tx.cmd
    /\ (gwy.started /\ ~gwy.is_evofw3 /\ tx.cmd.addr0 # HGI_ID_
          /\ tx.outcome \notin {"", "pending"})
       => tx.outcome = "ProtocolSendFailed"
    /\ \A i \in 1..Len(echo) :
         /\ echo[i].addr0 # HGI_ID_
         /\ SameButAddr0(echo[i], tx.cmd)

\* The echo of RP 18:000730 18:000730: addr0 is the gateway's, addr1 is
\* kept.
C13_Witness ==
    /\ tx.outcome = "pkt"
    /\ tx.cmd.addr0 = HGI_ID_
    /\ tx.cmd.addr1 = HGI_ID_
    /\ tx.pkt.addr0 = gwy.hgi_id
    /\ tx.pkt.addr1 = HGI_ID_

\* An HGI80 gateway has dropped a frame sent under its own id.
C13_WitnessDropped ==
    /\ ~gwy.is_evofw3
    /\ tx.cmd.addr0 = gwy.hgi_id
    /\ tx.outcome = "ProtocolSendFailed"
    /\ serial = <<>>
    /\ echo = <<>>

(***************************************************************************)
(* The dispatcher.                                                         *)
(***************************************************************************)
CallIds == 1..Len(calls)

\* gwy.devices before the n-th call.
DevicesBefore(n) == IF n = 1 THEN <<>> ELSE calls[n - 1].devices

\* The handlers scheduled for the n-th call, run or not.
Routed(n) ==
    {loop[i][1] : i \in {k \in 1..Len(loop) : loop[k][2] = n}}
        \cup {delivered[i][1] : i \in {k \in 1..Len(delivered) : delivered[k][2] = n}}

SameTypePair(msg) ==
    /\ msg.src.id # msg.dst.id
    /\ msg.src.type = msg.dst.type

Rejected(n) ==
    /\ calls[n].raised = "PacketAddrSetInvalid"
    /\ ~calls[n].propagated
    /\ calls[n].devices = DevicesBefore(n)
    /\ Routed(n) = {}

\* The schema: the devices known, in no order.
Schema(devs) == {devs[i] : i \in 1..Len(devs)}

\* The devices after the messages are processed, in order, from devs.
RECURSIVE Replay(_, _)
Replay(devs, msgs) ==
    IF msgs = <<>> THEN devs
    ELSE Replay(OutcomeFrom(devs, Head(msgs), FALSE).devices, Tail(msgs))

Perms(n) == {p \in [1..n -> 1..n] : \A i, j \in 1..n : p[i] = p[j] => i = j}

Shuffled(p) == [i \in CallIds |-> calls[p[i]].msg]

C15_AddrSetSanity ==
    \A n \in CallIds :
        LET c == calls[n]
        IN  (SameTypePair(c.msg) /\ c.msg.src.type \in HEAT_DEVICES) =>
              /\ c.msg.code \in CODES_OF_HEAT_DOMAIN_ONLY => Rejected(n)
              /\ c.msg.code \in CODES_OF_HEAT_DOMAIN \ CODES_OF_HEAT_DOMAIN_ONLY
                   => c.log = "warning" /\ c.raised # "PacketAddrSetInvalid"
              /\ c.msg.code \in CODES_OF_HVAC_DOMAIN_ONLY
                   => /\ c.log = ""
                      /\ c.raised # "PacketAddrSetInvalid"
                      /\ (config.reduce_processing = 0 /\ c.raised = "")
                           => /\ InSeq(c.devices, c.msg.src.id)
                              /\ c.msg.src.id \in Routed(n)

\* A heat-only message between two controllers was rejected after an
\* earlier message had created a device.
C15_Witness ==
    \E n \in CallIds :
        /\ n > 1
        /\ calls[n].msg = Msg(I_, CTL_1, CTL_2, "1F09", "")
        /\ calls[n].raised = "PacketAddrSetInvalid"
        /\ calls[n].devices # <<>>
        /\ Routed(n) = {}

\* The same pair of controllers with a code that is warned of, and with
\* one that is accepted.
C15_WitnessAccepted ==
    \E n, k \in CallIds :
        /\ calls[n].msg = Msg(I_, CTL_1, CTL_2, "10E0", "")
        /\ calls[n].log = "warning"
        /\ calls[k].msg = Msg(I_, CTL_1, CTL_2, "22F3", "")
        /\ CTL_1.id \in Routed(k)

S2 == Msg(I_, HGI_1, HGI_0, "0001", "")

\* C16: the message I/0001 from 18:013393 to 18:000730 is rejected with
\* PacketAddrSetInvalid and routed to no handler.
C16_S2Rejected ==
    \A n \in CallIds : calls[n].msg = S2 => Rejected(n)

\* The message was not rejected: its source was created and its handler
\* was scheduled.
C16_S2Routed ==
    \E n \in CallIds :
        /\ calls[n].msg = S2
        /\ calls[n].raised = ""
        /\ InSeq(calls[n].devices, HGI_1.id)
        /\ HGI_1.id \in Routed(n)

\* The exceptions of validation: raised before a device is created.
Invalid(raised) == raised \in {"PacketAddrSetInvalid", "LookupError"}

\* C17 as stated: no exception leaves process_msg, and a call in which one
\* was raised changes neither the devices nor the handlers scheduled.
C17_ErrorsLeaveNoTrace ==
    /\ [](\A n \in CallIds : ~calls[n].propagated)
    /\ [][(Len(calls') = Len(calls) + 1 /\ calls'[Len(calls')].raised # "")
            => devices' = devices /\ loop' = loop]_vars

\* C17: no exception leaves process_msg; a call in which validation raised
\* (PacketAddrSetInvalid, or LookupError for the source) changes neither
\* the devices nor the handlers scheduled, so that the calls after it find
\* the state they would have found without it; a call in which routing
\* raised has created its devices and scheduled its source's handler, and
\* no other.
C17_ErrorsAreLocal ==
    /\ [](\A n \in CallIds : ~calls[n].propagated)
    /\ [][(Len(calls') = Len(calls) + 1)
            => LET c == calls'[Len(calls')]
               IN  /\ Invalid(c.raised) => devices' = devices /\ loop' = loop
                   /\ (c.raised # "" /\ ~Invalid(c.raised))
                        => /\ devices' = OutcomeFrom(devices, c.msg, FALSE).devices
                           /\ loop' = Append(loop, <<c.msg.src.id, Len(calls')>>)
                   /\ calls' = Append(calls, c)
                   /\ \A m \in Msgs :
                        Invalid(c.raised) =>
                          OutcomeFrom(devices', m, FALSE) = OutcomeFrom(devices, m, FALSE)
          ]_vars

\* A rejected message, then a valid one that creates a device and is
\* routed.
C17_Witness ==
    /\ Len(calls) = 2
    /\ calls[1].raised = "PacketAddrSetInvalid"
    /\ calls[1].devices = <<>>
    /\ calls[2].raised = ""
    /\ calls[2].devices # <<>>
    /\ Routed(2) # {}

\* Routing raised KeyError after the source's handler was scheduled.
C17_WitnessRouting ==
    \E n \in CallIds :
        /\ calls[n].raised = "KeyError"
        /\ ~calls[n].propagated
        /\ Routed(n) = {calls[n].msg.src.id}

\* C18: the handler of a device is run for the messages routed to it in
\* the order of their process_msg calls: no message is handled by a device
\* before one of an earlier call.
C18_WireOrder ==
    \A i, j \in 1..Len(delivered) :
        (i < j /\ delivered[i][1] = delivered[j][1])
            => delivered[i][2] < delivered[j][2]

\* A device has handled two messages it was the source of.
C18_Witness ==
    \E i, j \in 1..Len(delivered) :
        /\ i < j
        /\ delivered[i][1] = delivered[j][1]
        /\ delivered[i][2] < delivered[j][2]
        /\ calls[delivered[i][2]].msg.src.id = delivered[i][1]
        /\ calls[delivered[j][2]].msg.src.id = delivered[j][1]

(***************************************************************************)
(* Array fragments.                                                        *)
(***************************************************************************)
IsPrefixOf(s, t) == Len(s) <= Len(t) /\ SubSeq(t, 1, Len(s)) = s

C19_WitnessLate ==
    /\ ~detected
    /\ this # <<>> /\ prev # <<>>
    /\ this[1].code = "000A" /\ prev[1].code = "000A"
    /\ this[1].verb = I_ /\ prev[1].verb = I_
    /\ this[1].src = prev[1].src
    /\ prev[1]._has_array
    /\ this[1].dtm = prev[1].dtm + 3

(***************************************************************************)
(* Message equality.                                                       *)
(***************************************************************************)
SameKey(a, b) ==
    /\ a.src = b.src
    /\ a.dst = b.dst
    /\ a.verb = b.verb
    /\ a.code = b.code
    /\ a._pkt.payload = b._pkt.payload

\* C20: two Messages are equal exactly when their src, dst, verb, code and
\* raw payload are equal, whatever their timestamps, RSSIs and sequence
\* numbers; == is reflexive, symmetric and transitive.
C20_MessageEquality ==
    /\ cmp.ab <=> SameKey(cmp.a, cmp.b)
    /\ cmp.bc <=> SameKey(cmp.b, cmp.c)
    /\ cmp.ac <=> SameKey(cmp.a, cmp.c)
    /\ cmp.aa
    /\ cmp.ab <=> cmp.ba
    /\ (cmp.ab /\ cmp.bc) => cmp.ac

\* Three equal messages that differ in timestamp, in RSSI and in sequence
\* number.
C20_Witness ==
    /\ cmp.ab /\ cmp.bc /\ cmp.ac
    /\ cmp.a.dtm # cmp.b.dtm
    /\ cmp.b._pkt.rssi # cmp.c._pkt.rssi
    /\ cmp.a.seqn # cmp.c.seqn

\* Two messages that differ in the raw payload alone are not equal.
C20_WitnessPayload ==
    /\ ~cmp.ab
    /\ cmp.a._pkt.payload # cmp.b._pkt.payload
    /\ [cmp.a EXCEPT !._pkt.payload = cmp.b._pkt.payload] = cmp.b

(***************************************************************************)
(* Claims about the readers of an entity and about _handle_msg.            *)
(***************************************************************************)
Readers == {"_get_msg_value", "_msg_payload", "_msg_expired"}

\* The keys of the fields a call returned.
ReturnedKeys(r) ==
    CASE r.kind = "dict" -> DOMAIN r.dict
      [] r.kind = "list" -> UNION {DOMAIN r.list[i] : i \in DOMAIN r.list}
      [] r.kind = "value" -> {r.key}
      [] OTHER -> {}

\* C21: no read of an entity's cached payload, with or without a key, of a
\* dict or of a list payload, returns a field whose key begins with "_".
C21_NoUnderscoreField ==
    ret.fn \in Readers => \A k \in ReturnedKeys(ret) : IsPublic(k)

\* _get_msg_value returned a list payload as it is, with the "_" fields of
\* its elements.
C21_ListReturnedWhole ==
    /\ ret.fn = "_get_msg_value"
    /\ ret.kind = "list"
    /\ \E i \in DOMAIN ret.list : "_unknown" \in DOMAIN ret.list[i]

\* A reader that was given a key that begins with "_" returned its value.
C21_UnderscoreKeyReturned ==
    /\ ret.fn \in {"_get_msg_value", "_msg_payload"}
    /\ ret.kind = "value"
    /\ ret.key = "_unknown"

\* The stored message of a code, verb and context, if any.
NoEntMsg == [code |-> "", verb |-> "", ctx |-> "", payload |-> EntPayload("", "")]

Slot(obj, k) ==
    IF /\ k[1] \in DOMAIN obj._msgz
       /\ k[2] \in DOMAIN obj._msgz[k[1]]
       /\ k[3] \in DOMAIN obj._msgz[k[1]][k[2]]
    THEN obj._msgz[k[1]][k[2]][k[3]]
    ELSE NoEntMsg

Latest(obj, code) ==
    IF code \in DOMAIN obj._msgs THEN obj._msgs[code] ELSE NoEntMsg

EntKeys == EntCodes \X Verbs \X Ctxs

\* C23: _handle_msg(m) makes m the message of _msgz[code][verb][ctx] and
\* leaves every other entry of _msgz as it was; it makes m the message of
\* _msgs[code] when its verb is I or RP and leaves the others, and for an
\* RQ or a W it leaves _msgs as it was.
C23_HandleMsgEffect ==
    ret.fn = "_handle_msg" =>
        LET m == EntMsg(ret.msg[1], ret.msg[2], ret.msg[3])
        IN  /\ Slot(store, ret.msg) = m
            /\ \A k \in EntKeys \ {ret.msg} : Slot(store, k) = Slot(ret.before, k)
            /\ \A c \in EntCodes :
                  Latest(store, c) = IF c = m.code /\ m.verb \in {I_, RP}
                                     THEN m
                                     ELSE Latest(ret.before, c)

\* An RQ was handled by an entity that held a message of its code and verb
\* in another context and a latest message of its code.
C23_Witness ==
    /\ ret.fn = "_handle_msg"
    /\ ret.msg = <<"30C9", RQ, "FC">>
    /\ Slot(ret.before, <<"30C9", RQ, "00">>) # NoEntMsg
    /\ Latest(store, "30C9") # NoEntMsg

\* An RP replaced the latest message of its code.
C23_WitnessReplaced ==
    /\ ret.fn = "_handle_msg"
    /\ ret.msg[2] = RP
    /\ Latest(ret.before, ret.msg[1]) \notin {NoEntMsg, Latest(store, ret.msg[1])}

\* C24: a reader that finds the message expired returns no value for it and
\* removes it from _msgz and from _msgs.
C24_ExpiredReadRemoves ==
    (ret.fn \in Readers /\ ret.expired) =>
        /\ ret.kind = "None"
        /\ ret.code \notin DOMAIN store._msgs
        /\ \A k \in EntKeys : k \in stale => Slot(store, k) = NoEntMsg

\* _msg_payload returned None for an expired message, which is still the
\* latest message of its code.
C24_ExpiredKept ==
    /\ ret.fn = "_msg_payload"
    /\ ret.expired
    /\ ret.kind = "None"
    /\ ret.code \in DOMAIN store._msgs
    /\ KeyOf(store._msgs[ret.code]) \in stale

\* _get_msg_value returned the payload of an expired message.
C24_ExpiredValueReturned ==
    /\ ret.fn = "_get_msg_value"
    /\ ret.expired
    /\ ret.kind # "None"

(***************************************************************************)
(* Claims about the construction of a message.                             *)
(***************************************************************************)
CheckTexts == {"Unknown code", "Unknown verb/code pair", "Payload doesn't match"}

C22_WitnessPayload ==
    \/ /\ built.raised = "PacketPayloadInvalid"
       /\ pkt.parsed = "dict"
    \/ /\ built.msg.exists
       /\ pkt.verb = RP

Coerced ==
    {"AssertionError", "NotImplementedError", "AttributeError", "KeyError",
     "TypeError", "ValueError"}

\* C26: the construction of a message returns a message or raises
\* PacketInvalid (or PacketPayloadInvalid, its subclass): an AssertionError
\* (of a parser or of _idx), NotImplementedError, AttributeError,
\* LookupError, TypeError or ValueError raised in it leaves as
\* PacketInvalid.
C26_OnlyPacketInvalid ==
    /\ built.raised \in {"", "PacketInvalid", "PacketPayloadInvalid"}
    /\ (built.msg.exists <=> built.raised = "")
    /\ built.inner \in Coerced => built.raised = "PacketInvalid" /\ ~built.msg.exists

\* The parser raised NotImplementedError.
C26_Witness ==
    /\ built.inner = "NotImplementedError"
    /\ pkt.parsed = "NotImplementedError"
    /\ built.raised = "PacketInvalid"

\* An assertion of _idx failed, and a parser returned neither a dict nor a
\* list.
C26_WitnessIdx ==
    \/ /\ built.inner = "AssertionError"
       /\ pkt.parsed = "dict"
       /\ built.text = "Bad packet"
    \/ /\ built.inner = "TypeError"
       /\ pkt.parsed = "str"

IndexKeys ==
    {"hvac_id", "dhw_idx", "ufh_idx", "log_idx", "msg_id", "other_idx",
     "domain_id", "zone_idx"}

\* The name of the index key of a packet, if it has one.
IndexName(p) ==
    IF p.code \in {"31D9", "31DA"} THEN "hvac_id"
    ELSE IF p.code \in {"000A", "2309"} /\ p.src = DEV_UFC THEN "ufh_idx"
    ELSE IF p.code \in {"0418"} THEN "log_idx"
    ELSE IF p.code \in {"10A0", "1260", "1F41"} THEN "dhw_idx"
    ELSE IF p.code \in {"22C9"} THEN "ufh_idx"
    ELSE IF p.code \in {"0002", "2389", "2D49"} THEN "other_idx"
    ELSE IF p.code \in {"3220"} THEN "msg_id"
    ELSE IF Pkt_idx(p) \in {"FC"} THEN "domain_id"
    ELSE "zone_idx"

C27_WitnessNames ==
    /\ built.msg.exists
    /\ \/ pkt.code = "30C9" /\ "zone_idx" \in DOMAIN built.msg._payload.dict
       \/ pkt.code = "1260" /\ "dhw_idx" \in DOMAIN built.msg._payload.dict
       \/ pkt.code = "31DA" /\ "hvac_id" \in DOMAIN built.msg._payload.dict
       \/ pkt.code = "000A" /\ "ufh_idx" \in DOMAIN built.msg._payload.dict
       \/ built.msg._payload.kind = "list"

\* A 3220 message has no index key.
C27_WitnessNone ==
    /\ built.msg.exists
    /\ pkt.code = "3220"
    /\ DOMAIN built.msg._payload.dict = {"temperature"}

(***************************************************************************)
(* Claims about the expiry of a message.                                   *)
(***************************************************************************)
\* The lifespan that counts, in seconds: remaining_seconds for a 1F09 that
\* is not an RQ; 0 stands for never.
LifespanOf(msg) ==
    IF msg.code = "1F09" /\ msg.verb # RQ THEN msg.remaining_seconds
    ELSE IF msg._lifespan.kind = "td" THEN msg._lifespan.seconds
    ELSE 0

\* (t - dtm - 3 s) / lifespan >= 2.0
Due(msg, t) ==
    /\ LifespanOf(msg) > 0
    /\ t - msg.dtm - 3 >= 2 * LifespanOf(msg)

\* C25: _expired is true exactly when (now - dtm - 3 s) / lifespan >= 2.0:
\* false before dtm + 3 s + 2 lifespans and true from then on, the lifespan
\* of a 1F09 that is not an RQ being its remaining_seconds; a message whose
\* lifespan is never has never expired.
C25_ExpiredExactly ==
    xret.val \in {"True", "False"} => (xret.val = "True" <=> Due(xmsg, xret.at))

\* _expired was read when the age of the message was 3 s less its lifespan:
\* the fraction -1.0 it kept is CANT_EXPIRE, and a read after
\* dtm + 3 s + 2 lifespans has returned False.
C25_SentinelCollision ==
    /\ xret.val = "False"
    /\ Due(xmsg, xret.at)
    /\ LifespanOf(xmsg) > 0
    /\ FracEq(xmsg._fraction_expired, CANT_EXPIRE)

\* The claim holds of every message that was not read at that age.
C25_ExpiredExactlyOtherwise ==
    (xret.val \in {"True", "False"} /\ ~xret.back /\ ~C25_SentinelCollision)
        => (xret.val = "True" <=> Due(xmsg, xret.at))

(***************************************************************************)
(* Claims about reduced processing and the creation of devices.            *)
(***************************************************************************)
\* The devices the n-th call created.
Created(n) == Schema(calls[n].devices) \ Schema(DevicesBefore(n))

\* C28: with reduce_processing at DONT_CREATE_ENTITIES or above, a message
\* creates no device and no handler is scheduled for it; at
\* DONT_UPDATE_ENTITIES, below DONT_CREATE_ENTITIES, devices may be created
\* but no handler is scheduled.
C28_ReducedProcessing ==
    /\ config.reduce_processing >= DONT_CREATE_ENTITIES => devices = <<>>
    /\ config.reduce_processing >= DONT_UPDATE_ENTITIES =>
          /\ loop = <<>>
          /\ delivered = <<>>
          /\ \A n \in CallIds : calls[n].scheduled = <<>>

\* At DONT_UPDATE_ENTITIES a message has created its source, and no handler
\* was scheduled.
C28_Witness ==
    /\ config.reduce_processing = DONT_UPDATE_ENTITIES
    /\ \E n \in CallIds :
          /\ calls[n].raised = ""
          /\ calls[n].msg.src.id \in Created(n)
          /\ Routed(n) = {}

\* At DONT_CREATE_ENTITIES messages were processed, none of them refused.
C28_WitnessNoDevices ==
    /\ config.reduce_processing = DONT_CREATE_ENTITIES
    /\ Len(calls) = MaxCalls
    /\ \A n \in CallIds : calls[n].raised = ""

\* C29: while enable_eavesdrop is false, a message creates no device for
\* its destination: the only device it may create is its source.
C29_NoEavesdropNoDst ==
    ~config.enable_eavesdrop =>
        /\ \A n \in CallIds : Created(n) \subseteq {calls[n].msg.src.id}
        /\ \A d \in Schema(devices) : \E n \in CallIds : calls[n].msg.src.id = d

\* Without eavesdropping, a message to another address has created its
\* source and not its destination.
C29_Witness ==
    /\ ~config.enable_eavesdrop
    /\ \E n \in CallIds :
          /\ calls[n].msg.dst.id \notin {calls[n].msg.src.id, HGI_0.id}
          /\ calls[n].msg.dst.id \notin block_list
          /\ Created(n) = {calls[n].msg.src.id}
          /\ ~InSeq(devices, calls[n].msg.dst.id)

\* With eavesdropping, the destination is created.
C29_WitnessEavesdrop ==
    /\ config.enable_eavesdrop
    /\ \E n \in CallIds : calls[n].msg.dst.id \in Created(n) \ {calls[n].msg.src.id}

\* The n-th call reaches _create_devices_from_addrs.
Creates(n) ==
    /\ config.reduce_processing < DONT_CREATE_ENTITIES
    /\ calls[n].raised # "PacketAddrSetInvalid"

\* C30: a LookupError for the destination is swallowed: the message is
\* routed to its source and the destination stays an address.  A
\* LookupError for the source ends the processing of the message: no
\* handler is scheduled and no device is created.
C30_LookupErrors ==
    \A n \in CallIds :
        LET msg == calls[n].msg
        IN  /\ (/\ Creates(n)
                /\ msg.src.id \in block_list
                /\ ~InSeq(DevicesBefore(n), msg.src.id)) =>
                   /\ calls[n].raised = "LookupError"
                   /\ ~calls[n].propagated
                   /\ Created(n) = {}
                   /\ Routed(n) = {}
            /\ (/\ Creates(n)
                /\ config.enable_eavesdrop
                /\ msg.src.id \notin block_list
                /\ msg.src.id # HGI_0.id
                /\ msg.dst.id \in block_list) =>
                   /\ calls[n].raised # "LookupError"
                   /\ InSeq(calls[n].devices, msg.src.id)
                   /\ ~InSeq(calls[n].devices, msg.dst.id)
                   /\ (config.reduce_processing < DONT_UPDATE_ENTITIES
                          => msg.src.id \in Routed(n))

\* The source of a message could not be created.
C30_Witness ==
    \E n \in CallIds :
        /\ calls[n].msg = Msg(I_, FAN_2, FAN_2, "22F3", "")
        /\ calls[n].raised = "LookupError"
        /\ Routed(n) = {}

\* The destination of a message could not be created, and the message was
\* routed to its source.
C30_WitnessDst ==
    /\ config.enable_eavesdrop
    /\ \E n \in CallIds :
          /\ calls[n].msg = Msg(I_, FAN_1, FAN_2, "22F3", "")
          /\ calls[n].raised = ""
          /\ FAN_1.id \in Created(n)
          /\ Routed(n) = {FAN_1.id}

(***************************************************************************)
(* Claims about the effect of _send_cmd and of expired() on the stores.    *)
(***************************************************************************)
\* C35: _send_cmd(code) removes _msgs[code] and changes nothing else of
\* the entity: _msgz and the other entries of _msgs are as they were; and
\* _msgs[code] stays absent until the entity handles the next I or RP
\* message of the code.
C35_SendCmdEffect ==
    \A e \in EntityIds, c \in Codes :
        LET obj == _send_cmd(ent[e], c)
        IN  /\ c \notin DOMAIN obj._msgs
            /\ obj._msgz = ent[e]._msgz
            /\ DOMAIN obj._msgs = (DOMAIN ent[e]._msgs) \ {c}
            /\ \A k \in DOMAIN obj._msgs : obj._msgs[k] = ent[e]._msgs[k]
            /\ removed[e][c] => c \notin DOMAIN ent[e]._msgs

\* The device has sent a command for a code whose message it had handled:
\* the message is no longer in _msgs and still in _msgz.
C35_Witness ==
    \E c \in Codes :
        /\ removed["dev"][c]
        /\ evicted = {}
        /\ c \notin DOMAIN ent["dev"]._msgs
        /\ c \in DOMAIN ent["dev"]._msgz
        /\ DOMAIN ent["dev"]._msgs # {}

\* The messages of an entity that a call of expired(msg) would remove from
\* _msgz, and the codes it would remove from _msgs.
GoneFromMsgz(e, msg) ==
    _msg_db(ent[e]) \ _msg_db(expired(ent, fraction, msg)[e])

GoneFromMsgs(e, msg) ==
    (DOMAIN ent[e]._msgs) \ (DOMAIN expired(ent, fraction, msg)[e]._msgs)

\* C36: expired(msg) for a message that has not expired changes no store;
\* for one that has, what it removes from _msgz is the entry of msg's code,
\* verb and context, and what it removes from _msgs is msg itself: no other
\* message leaves a store, and none is added or replaced.
C36_ExpiredFrame ==
    \A msg \in Stored :
        /\ ~HasExpired(msg) => expired(ent, fraction, msg) = ent
        /\ \A e \in EntityIds :
              /\ \A m \in GoneFromMsgz(e, msg) :
                    /\ m.code = msg.code
                    /\ m.verb = msg.verb
                    /\ m.ctx = msg.ctx
              /\ \A c \in GoneFromMsgs(e, msg) : ent[e]._msgs[c] = msg
              /\ _msg_db(expired(ent, fraction, msg)[e]) \subseteq _msg_db(ent[e])
              /\ \A c \in DOMAIN expired(ent, fraction, msg)[e]._msgs :
                    c \in DOMAIN ent[e]._msgs
                       /\ expired(ent, fraction, msg)[e]._msgs[c] = ent[e]._msgs[c]

\* expired(msg) is about to remove from _msgs a message that is not msg
\* and has not expired.
C36_OtherLatestRemoved ==
    \E msg \in Stored, e \in EntityIds :
        /\ HasExpired(msg)
        /\ \E c \in GoneFromMsgs(e, msg) :
              /\ ent[e]._msgs[c] # msg
              /\ ~HasExpired(ent[e]._msgs[c])

\* expired() has removed a message from _msgs whose last handled message
\* has neither expired nor been followed by a command.
C36_OtherLatestGone ==
    \E c \in Codes :
        /\ handled["dev"][c] # <<>>
        /\ ~HasExpired([id |-> Last(handled["dev"][c])])
        /\ Last(handled["dev"][c]) \notin evicted
        /\ evicted # {}
        /\ c \notin DOMAIN ent["dev"]._msgs
        /\ \E m \in _msg_db(ent["dev"]) : m.id = Last(handled["dev"][c])

\* C37: _msgz holds no empty map: every code in it has a verb, and every
\* verb of a code has a context; _msg_db lists the messages stored.
C37_NoEmptyMap ==
    \A e \in EntityIds :
        LET z == ent[e]._msgz
        IN  /\ \A c \in DOMAIN z :
                  /\ DOMAIN z[c] # {}
                  /\ \A v \in DOMAIN z[c] :
                        /\ DOMAIN z[c][v] # {}
                        /\ \A x \in DOMAIN z[c][v] : z[c][v][x] \in _msg_db(ent[e])
            /\ \A m \in _msg_db(ent[e]) : z[m.code][m.verb][m.ctx] = m
            /\ (z = EmptyDict <=> _msg_db(ent[e]) = {})

\* expired() has removed the only message of the device.
C37_Witness ==
    /\ evicted # {}
    /\ nextId > 1
    /\ ent["dev"]._msgz = EmptyDict

\* expired() has removed one of two messages of a code and verb.
C37_WitnessKept ==
    /\ evicted # {}
    /\ \E m \in _msg_db(ent["dev"]) :
          \E i \in evicted : i # m.id /\ ~HasExpired(m)

\* What expired(msg) removes from _msgz is as C36 has it: only the entry of
\* msg's code, verb and context, and nothing when msg has not expired.
C36_MsgzFrame ==
    \A msg \in Stored :
        /\ ~HasExpired(msg) => expired(ent, fraction, msg) = ent
        /\ \A e \in EntityIds :
              /\ \A m \in GoneFromMsgz(e, msg) :
                    m.code = msg.code /\ m.verb = msg.verb /\ m.ctx = msg.ctx
              /\ \A c \in GoneFromMsgs(e, msg) :
                    c = msg.code /\ ent[e]._msgs[c].verb = msg.verb

\* C34: _expired is monotone.  Once it has returned True for a message,
\* every later read returns True, even when the clock was set back; once
\* it has found the lifespan of a message to be never, every later read
\* returns False.
C34_ExpiredMonotone ==
    [][(xret'.at # None /\ xret' # xret /\ xret'.back = xret.back) =>
          /\ xret.val = "True" => xret'.val = "True"
          /\ (/\ xret.val = "False"
              /\ xmsg._lifespan = Never
              /\ ~(xmsg.code = "1F09" /\ xmsg.verb # RQ)) => xret'.val = "False"
          /\ xmsg'.dtm = xmsg.dtm]_vars

\* After the clock was set back, _expired has returned True at a time
\* before dtm + 3 s + 2 lifespans.
C34_Witness ==
    /\ xret.val = "True"
    /\ xret.back
    /\ ~Due(xmsg, xret.at)

\* A message whose lifespan is never was read long after its arrival.
C34_WitnessNever ==
    /\ xret.val = "False"
    /\ xmsg._lifespan = Never
    /\ xmsg.code = "30C9"
    /\ xret.at = MaxNow

C39_WitnessNone ==
    /\ \A f \in DOMAIN ParamArgs \ {"wait_for_reply"} : params.args[f] = None
    /\ params.qos.max_retries = 3

(***************************************************************************)
(* Claims about the routing of process_msg.                                *)
(***************************************************************************)
\* C32: process_msg runs no handler: it schedules each with call_soon.  A
\* handler runs in a step of the loop of its own, after the process_msg
\* that scheduled it has returned, and one handler at a time: it is the
\* callback at the head of the loop, which was scheduled by a call that
\* has returned.
C32_HandlersDeferred ==
    [][delivered' # delivered =>
          /\ calls' = calls
          /\ devices' = devices
          /\ loop # <<>>
          /\ loop[1][2] \in 1..Len(calls)
          /\ delivered' = Append(delivered, loop[1])
          /\ loop' = Tail(loop)]_vars

\* A handler scheduled by the first call runs after the second call has
\* returned, while handlers of the second call wait.
C32_Witness ==
    /\ Len(calls) = 2
    /\ delivered # <<>>
    /\ delivered[Len(delivered)][2] = 1
    /\ loop # <<>>
    /\ loop[1][2] = 2

\* A call has scheduled two handlers, and none has run.
C32_WitnessWaiting ==
    /\ Len(calls) = 1
    /\ Len(calls[1].scheduled) = 2
    /\ Len(loop) = 2
    /\ delivered = <<>>

\* The call that a step of process_msg adds, and the three tests of its
\* routing.
NewCall == calls'[Len(calls')]

DstCase(out) ==
    /\ out.msg.dst.id # out.msg.src.id
    /\ InSeq(out.devices, out.msg.dst.id)
    /\ IsFakeable(out.msg.dst.id)

OfferCase(out) == out.msg.code = "1FC9" /\ out.msg.phase = "offer"

Listeners(out) ==
    {d \in Schema(out.devices) : d # out.msg.src.id /\ IsFakeable(d) /\ d \in binding}

\* The message was routed: a handler was scheduled, and nothing was raised.
WasRouted(out) == out.scheduled # <<>> /\ out.raised = ""

\* C33 as stated: besides the source, a routed message is delivered to a
\* distinct, fakeable dst; and, when it is a 1FC9 offer, to every fakeable
\* device other than src that is binding, whatever dst is; and to each of
\* src.devices whenever src has the attribute.
C33_AllRecipients ==
    [][calls' # calls /\ WasRouted(NewCall) =>
          LET out == NewCall
              rest == Schema(Tail(out.scheduled))
          IN  /\ out.scheduled[1] = out.msg.src.id
              /\ DstCase(out) => out.msg.dst.id \in rest
              /\ OfferCase(out) => Listeners(out) \subseteq rest
              /\ HasDevices(out.msg.src.id) =>
                     Schema(children[out.msg.src.id]) \subseteq rest]_vars

\* C33, amended: besides the source, a routed message is delivered to the
\* recipients of the first test that holds, and of that one only: to dst
\* when dst is distinct from src and fakeable; otherwise, when it is a 1FC9
\* offer, to every fakeable device other than src that is binding;
\* otherwise to each of src.devices when src has the attribute; otherwise
\* to none.
C33_FirstRecipients ==
    [][calls' # calls /\ WasRouted(NewCall) =>
          LET out == NewCall
              rest == Tail(out.scheduled)
          IN  /\ out.scheduled[1] = out.msg.src.id
              /\ {loop'[i][1] : i \in {k \in 1..Len(loop') : loop'[k][2] = Len(calls')}}
                     = Schema(out.scheduled)
              /\ IF DstCase(out) THEN rest = <<out.msg.dst.id>>
                 ELSE IF OfferCase(out) THEN Schema(rest) = Listeners(out)
                 ELSE IF HasDevices(out.msg.src.id)
                 THEN rest = children[out.msg.src.id]
                 ELSE rest = <<>>]_vars

\* A message of a controller to a fakeable device was delivered to that
\* device, while the controller has a device that is not the destination.
C33_Witness ==
    \E n \in CallIds :
        /\ WasRouted(calls[n])
        /\ DstCase(calls[n])
        /\ HasDevices(calls[n].msg.src.id)
        /\ Routed(n) = {calls[n].msg.src.id, calls[n].msg.dst.id}
        /\ Schema(children[calls[n].msg.src.id]) \ Routed(n) # {}

\* An offer was delivered to a device that is binding.
C33_WitnessOffer ==
    \E n \in CallIds :
        /\ WasRouted(calls[n])
        /\ OfferCase(calls[n])
        /\ Len(calls[n].scheduled) = 2
        /\ calls[n].scheduled[2] \in binding

\* A message of a controller was delivered to the controller's device.
C33_WitnessDevices ==
    \E n \in CallIds :
        /\ WasRouted(calls[n])
        /\ ~DstCase(calls[n])
        /\ ~OfferCase(calls[n])
        /\ Len(calls[n].scheduled) = 2
        /\ InSeq(children[calls[n].msg.src.id], calls[n].scheduled[2])

C38_WitnessSelf ==
    \E n \in CallIds :
        /\ WasRouted(calls[n])
        /\ calls[n].msg.dst.id = calls[n].msg.src.id
        /\ Len(calls[n].scheduled) = 2
        /\ calls[n].scheduled[1] = calls[n].msg.src.id
        /\ calls[n].scheduled[2] # calls[n].msg.src.id

(***************************************************************************)
(* Claims about the two-way maps of slugs.                                 *)
(***************************************************************************)
\* The rows of the key looked up, of the map it was looked up in.
KeyRows(m, k) == {i \in 1..Len(MainTables[m]) : MainTables[m][i].key = k}

IsAliasKey(m, k) == \A i \in KeyRows(m, k) : MainTables[m][i].aka # ""

\* The key of the slug, in the map.
HexOf(m, slug) ==
    LastRow(MainTables[m], {i \in 1..Len(MainTables[m]) : MainTables[m][i].slug = slug}).key

\* The slug of an alias's key: the slug it is an alias of.
RootOf(m, k) == LastRow(MainTables[m], KeyRows(m, k)).aka

\* C40: in a map that is as it was made, the name of a key k of a slug that
\* is no alias maps back to k; the name of the key of an alias maps back to
\* the key of the slug it is an alias of, and slug(k) is that slug.  Every
\* operation that changes a dict raises TypeError on a map, and leaves the
\* map as it was.
C40_TwoWayReadOnly ==
    /\ mret.kind = "lookup" /\ mret.same =>
          IF IsAliasKey(mret.map, mret.key)
          THEN /\ mret.back = HexOf(mret.map, RootOf(mret.map, mret.key))
               /\ mret.slug = RootOf(mret.map, mret.key)
          ELSE mret.back = mret.key
    /\ mret.kind = "op" => mret.raised = "TypeError" /\ mret.same

\* The name of a key is the name of a later key of the map too, and neither
\* is the key of an alias.
SharedName(m, k) ==
    \E i \in KeyRows(m, k), j \in 1..Len(MainTables[m]) :
        /\ j > i
        /\ MainTables[m][j].name = MainTables[m][i].name
        /\ MainTables[m][j].key # ""
        /\ MainTables[m][j].aka = ""
        /\ MainTables[m][i].aka = ""

\* The round trip holds for every key whose name is not that of a later
\* key, and the seven methods that are replaced raise TypeError and change
\* nothing.
C40_RoundTripElsewhere ==
    /\ mret.kind = "lookup" /\ mret.same /\ ~SharedName(mret.map, mret.key) =>
          IF IsAliasKey(mret.map, mret.key)
          THEN /\ mret.back = HexOf(mret.map, RootOf(mret.map, mret.key))
               /\ mret.slug = RootOf(mret.map, mret.key)
          ELSE mret.back = mret.key /\ mret.slug = LastRow(MainTables[mret.map],
                                                        KeyRows(mret.map, mret.key)).slug
    /\ mret.kind = "op" /\ mret.op \in ReadOnlyOps =>
          mret.raised = "TypeError" /\ mret.same

\* The key 00 of ZON_ROLE_MAP, of the slug ACT that is no alias, is looked
\* up: its name maps back to 04.
C40_SharedNameLookup ==
    /\ mret.kind = "lookup"
    /\ mret.same
    /\ mret.map = "ZON_ROLE_MAP"
    /\ mret.key = "00"
    /\ mret.name = "heating_zone"
    /\ mret.back = "04"
    /\ mret.slug = "ACT"

\* map |= {key: value} raised nothing, and changed the map.
C40_IorChanges ==
    /\ mret.kind = "op"
    /\ mret.op = "__ior__"
    /\ mret.raised = ""
    /\ ~mret.same
    /\ maps[mret.map][mret.key] = OpValue

\* The key 00 of DEV_TYPE_MAP, of the alias TR0 of TRV, is looked up.
C40_AliasLookup ==
    /\ mret.kind = "lookup"
    /\ mret.map = "DEV_TYPE_MAP"
    /\ mret.key = "00"
    /\ mret.back = "04"
    /\ mret.slug = "TRV"

(***************************************************************************)
(* A claim about the validation of the device classes.                     *)
(***************************************************************************)
HasTable(slug) == slug \in DOMAIN CODES_BY_DEV_SLUG

\* The code is not in the table of the slug, or the verb is not one of the
\* code's verbs.
WrongFor(slug, code, verb) ==
    \/ code \notin DOMAIN CODES_BY_DEV_SLUG[slug]
    \/ verb \notin CODES_BY_DEV_SLUG[slug][code]

\* The verb the destination would answer with is not one of the code's.
WrongReply(slug, code, verb) ==
    /\ verb # I_
    /\ code \in DOMAIN CODES_BY_DEV_SLUG[slug]
    /\ ReplyVerb(verb) \notin CODES_BY_DEV_SLUG[slug][code]

\* The pairs that are accepted whatever the table has.
Excepted(slug, code, verb) ==
    \/ slug = "CTL" /\ verb = RQ /\ code = "3EF1"
    \/ slug = "BDR" /\ verb = RQ /\ code = "3EF0"
    \/ verb = W_ /\ code = "0001"

\* C31 as stated: for a source or a destination whose slug is not one of
\* DEV, HEA, HVC, HGI, when the code is not in the table of its class or
\* the verb is wrong for the direction, the message is rejected with
\* PacketInvalid and routed to no handler in strict mode, and is logged and
\* routed otherwise.
C31_RoleValidation ==
    LET msg == checked.msg
        dst == DstSlug(msg)
        invalid ==
            \/ HasTable(msg.src) /\ WrongFor(msg.src, msg.code, msg.verb)
            \/ /\ HasTable(dst)
               /\ \/ msg.code \notin DOMAIN CODES_BY_DEV_SLUG[dst]
                  \/ WrongReply(dst, msg.code, msg.verb)
    IN  /\ checked.strict /\ invalid =>
              checked.out.raised = "PacketInvalid" /\ ~checked.out.routed
        /\ ~checked.strict => checked.out.raised = "" /\ checked.out.routed
        /\ msg.src \in UncheckedSlugs /\ dst \in UncheckedSlugs =>
              checked.out = [raised |-> "", logs |-> {}, routed |-> TRUE]

\* The source's class rejects the message.
SrcInvalid(msg) ==
    /\ msg.src \notin UncheckedSlugs
    /\ IF HasTable(msg.src) THEN WrongFor(msg.src, msg.code, msg.verb)
       ELSE msg.code # "10E0" /\ msg.code \notin CODES_OF_HVAC_DOMAIN_ONLY

\* The destination's class rejects the message.
DstInvalid(msg) ==
    LET dst == DstSlug(msg)
    IN  /\ ~(DstIsSrc(msg) /\ msg.verb = I_)
        /\ dst \notin UncheckedSlugs \cup {""}
        /\ IF HasTable(dst)
           THEN /\ WrongReply(dst, msg.code, msg.verb)
                /\ ~Excepted(dst, msg.code, msg.verb)
           ELSE msg.code \notin CODES_OF_HVAC_DOMAIN_ONLY

\* C31, amended: in strict mode a message is rejected with PacketInvalid,
\* and routed to no handler, exactly when the class of its source or of its
\* destination rejects it.  The source's class does when the code is not in
\* its table or the verb is not one of the code's.  The destination's class
\* does when the verb is not I, the code is in its table, the verb it would
\* answer with (RQ for RP, RP for RQ, I for W) is not one of the code's, and
\* the message is not CTL/RQ/3EF1, BDR/RQ/3EF0 or W/0001: a code that is not
\* in the destination's table is never rejected.  A class without a table
\* rejects every code that is not of the HVAC domain only (nor 10E0, for a
\* source).  Otherwise, and always in non-strict mode, nothing is raised and
\* the message is routed; the slugs DEV, HEA, HVC, HGI are not checked, nor
\* is a destination that is no device.
C31_RoleValidationAsCoded ==
    LET msg == checked.msg
        rejects == SrcInvalid(msg) \/ DstInvalid(msg)
    IN  /\ checked.out.raised = (IF checked.strict /\ rejects THEN "PacketInvalid" ELSE "")
        /\ checked.out.routed <=> ~(checked.strict /\ rejects)
        /\ ~checked.strict /\ rejects => checked.out.logs # {}
        /\ msg.src \in UncheckedSlugs /\ DstSlug(msg) \in UncheckedSlugs \cup {""} =>
              checked.out = [raised |-> "", logs |-> {}, routed |-> TRUE]

\* In strict mode, the controller's RP of a code that the table of the
\* relay it is sent to has not is routed.
C31_WitnessCodeOfDst ==
    /\ checked.strict
    /\ checked.msg.src = "CTL"
    /\ checked.msg.dst = "BDR"
    /\ checked.msg.verb = RP
    /\ checked.msg.code = "30C9"
    /\ checked.out.routed

\* In strict mode, a verb that is wrong for the source is rejected.
C31_Witness ==
    /\ checked.strict
    /\ checked.msg.src = "BDR"
    /\ checked.msg.verb = RQ
    /\ checked.msg.code = "3EF0"
    /\ checked.out.raised = "PacketInvalid"
    /\ ~checked.out.routed

\* In strict mode, a verb whose reply is wrong for the destination is
\* rejected.
C31_WitnessDst ==
    /\ checked.strict
    /\ checked.msg.src = "HGI"
    /\ checked.msg.dst = "BDR"
    /\ checked.msg.verb = RP
    /\ checked.msg.code = "3EF1"
    /\ checked.out.raised = "PacketInvalid"

\* In non-strict mode, a message that both classes reject is logged and
\* routed.
C31_WitnessLogged ==
    /\ ~checked.strict
    /\ SrcInvalid(checked.msg)
    /\ DstInvalid(checked.msg)
    /\ checked.out.logs = {"info"}
    /\ checked.out.routed

=============================================================================
